---- MODULE Spec2Model ----
(***************************************************************************)
(* Model of the mail_ai_local classification core:                         *)
(*   ai_decider.py     decide_ai, salvage_json, apply_user_overrides,      *)
(*                     run_ollama                                          *)
(*   mail_ai_local.py  make_fp, heuristic_label, salvage_llm_output,       *)
(*                     summarize_batch, auto_label                         *)
(* Texts are TLA+ strings handled character by character (SubSeq, Len).    *)
(* Oracle responses are sequences of lexemes.  Confidences and thresholds  *)
(* are counted in tenths (5 is 0.5).                                       *)
(***************************************************************************)
EXTENDS Integers, Sequences, FiniteSets, TLC

VARIABLES
    db,                 \* the emails table: id -> row
    pc,                 \* "idle", or the tool whose loop is running
    rows,               \* the ids fetched by the running tool, in ts DESC order
    idx,                \* position in rows of the next message
    updated,            \* the counter `updated` of the running tool
    warnings,           \* ids named in the [WARN] lines of the run
    min_conf_delete,    \* --min-conf-delete of the run, in tenths
    skip_duplicates,    \* --skip-duplicates of the run
    dry,                \* --dry of the run
    submitted,          \* ids of the messages handed to the oracle so far
    last,               \* the last message handled: its oracle call and the
                        \* values computed for it (None before the first)
    call, ret,          \* argument and result of a function applied alone
    msg_id,             \* the msg_id column of the table, by id (kept beside db)
    gmail,              \* the mailbox at the provider: its labels by name and
                        \* the label ids of each message
    api,                \* the calls made to the provider so far
    committed           \* the table as the last commit left it

vars == <<db, pc, rows, idx, updated, warnings, min_conf_delete, skip_duplicates,
          dry, submitted, last, call, ret, msg_id, gmail, api, committed>>

\* the options of a run
optVars == <<min_conf_delete, skip_duplicates, dry>>

\* the table column and the mailbox apply_gmail_labels works on
boxVars == <<msg_id, gmail, api>>

\* what the database file holds
diskVars == <<committed>>

toolVars == <<db, pc, rows, idx, updated, warnings, optVars, submitted, last, boxVars, diskVars>>

-----------------------------------------------------------------------------
(* Optional values: Python None is the empty tuple, a value x is <<x>>.    *)

None == <<>>

Some(x) == <<x>>

\* Python `x or ""` on an optional text
OrEmpty(o) == IF o = None THEN "" ELSE o[1]

-----------------------------------------------------------------------------
(* Text primitives                                                         *)

UpperChars == "ABCDEFGHIJKLMNOPQRSTUVWXYZ"

LowerChars == "abcdefghijklmnopqrstuvwxyz"

\* the lower-case letter of each upper-case letter
ToLower ==
    [c \in {SubSeq(UpperChars, i, i) : i \in 1..Len(UpperChars)} |->
        SubSeq(LowerChars, CHOOSE j \in 1..Len(UpperChars) : SubSeq(UpperChars, j, j) = c,
                           CHOOSE j \in 1..Len(UpperChars) : SubSeq(UpperChars, j, j) = c)]

\* the upper-case letter of each lower-case letter
ToUpper ==
    [c \in {SubSeq(LowerChars, i, i) : i \in 1..Len(LowerChars)} |->
        SubSeq(UpperChars, CHOOSE j \in 1..Len(LowerChars) : SubSeq(LowerChars, j, j) = c,
                           CHOOSE j \in 1..Len(LowerChars) : SubSeq(LowerChars, j, j) = c)]

\* str.lower() on one character
LowerChar(c) == IF c \in DOMAIN ToLower THEN ToLower[c] ELSE c

RECURSIVE Lower(_)
\* str.lower()
Lower(s) ==
    IF Len(s) = 0 THEN ""
    ELSE LowerChar(SubSeq(s, 1, 1)) \o Lower(SubSeq(s, 2, Len(s)))

\* str.upper() on one character
UpperChar(c) == IF c \in DOMAIN ToUpper THEN ToUpper[c] ELSE c

RECURSIVE Upper(_)
\* str.upper()
Upper(s) ==
    IF Len(s) = 0 THEN ""
    ELSE UpperChar(SubSeq(s, 1, 1)) \o Upper(SubSeq(s, 2, Len(s)))

\* Python `p in s` / re.search of a literal: p occurs somewhere in s
Contains(s, p) ==
    IF Len(p) = 0 THEN TRUE
    ELSE \E i \in 1..(Len(s) - Len(p) + 1) : SubSeq(s, i, i + Len(p) - 1) = p

-----------------------------------------------------------------------------
(* Override rules.  A pattern is the set of literal texts its alternation  *)
(* stands for; `anch` tells whether it is anchored with ^...$ (the text    *)
(* must equal a literal) or searched anywhere in the text.  ".*" is the    *)
(* empty literal.  The accented variants of [ée] stand outside the ASCII   *)
(* texts of this model and are left out of the literal sets.               *)

Rx(anch, alts) == [anch |-> anch, alts |-> alts]

Rule(f, s, d, r) == [from_rx |-> f, subj_rx |-> s, decision |-> d, reason |-> r]

USER_OVERRIDE_RULES == <<
    Rule(Rx(FALSE, {"@quora.com"}), Rx(FALSE, {""}), "delete", "rule: quora digest"),
    Rule(Rx(FALSE, {"@accounts.google.com"}),
         Rx(FALSE, {"alerte de securite", "security alert"}),
         "delete", "rule: google security alert"),
    Rule(Rx(TRUE, {"service@paypal.fr"}),
         Rx(FALSE, {"connexion depuis un nouvel appareil", "new device", "nouvel appareil"}),
         "delete", "rule: paypal new device"),
    Rule(Rx(FALSE, {"@myfox.me", "@myfox."}), Rx(FALSE, {""}), "delete", "rule: myfox spam"),
    Rule(Rx(FALSE, {"@linkedin.com"}), Rx(FALSE, {""}), "delete", "rule: linkedin spam"),
    Rule(Rx(TRUE, {"account@twitch.tv"}), Rx(FALSE, {""}), "delete", "rule: twitch account"),
    Rule(Rx(TRUE, {"transaction@notice.aliexpress.com"}), Rx(FALSE, {""}),
         "delete", "rule: aliexpress transaction"),
    Rule(Rx(FALSE, {"newsletter", "news.", "mailer", "email."}), Rx(FALSE, {""}),
         "delete", "rule: generic newsletter sender"),
    Rule(Rx(FALSE, {""}),
         Rx(FALSE, {"newsletter", "promo", "promotion", "vente privee", "ventes privee",
                    "bonplan", "bon plan", "reduction", "remise", "offre", "deal",
                    "solde", "flash sale", "discount", "% off"}),
         "delete", "rule: promo subject")
>>

\* re.search(rx, text)
ReSearch(rx, text) ==
    IF rx.anch THEN text \in rx.alts
    ELSE \E a \in rx.alts : Contains(text, a)

\* the condition of the loop body of apply_user_overrides for rule i
RuleMatches(i, f, s) ==
    /\ ReSearch(USER_OVERRIDE_RULES[i].from_rx, f)
    /\ ReSearch(USER_OVERRIDE_RULES[i].subj_rx, s)

\* a loop whose fall-through returns archive, not the decision it was given
ScanRulesFallThroughArchive(i, f, s, curr) ==
    LET hits == {j \in i..Len(USER_OVERRIDE_RULES) : RuleMatches(j, f, s)}
        k    == CHOOSE j \in hits : \A h \in hits : j <= h
    IN  IF hits = {} THEN [decision |-> "archive", reason |-> None]
        ELSE [decision |-> USER_OVERRIDE_RULES[k].decision,
              reason   |-> Some(USER_OVERRIDE_RULES[k].reason)]

\* a loop without the early return: the last matching rule from i on wins
ScanRulesLast(i, f, s, curr) ==
    LET hits == {j \in i..Len(USER_OVERRIDE_RULES) : RuleMatches(j, f, s)}
        k    == CHOOSE j \in hits : \A h \in hits : h <= j
    IN  IF hits = {} THEN [decision |-> curr, reason |-> None]
        ELSE [decision |-> USER_OVERRIDE_RULES[k].decision,
              reason   |-> Some(USER_OVERRIDE_RULES[k].reason)]

RECURSIVE ScanRules(_, _, _, _)
\* the for loop over USER_OVERRIDE_RULES, from rule i on
ScanRules(i, f, s, curr) ==
    IF i > Len(USER_OVERRIDE_RULES) THEN [decision |-> curr, reason |-> None]
    ELSE IF RuleMatches(i, f, s)
         THEN [decision |-> USER_OVERRIDE_RULES[i].decision,
               reason   |-> Some(USER_OVERRIDE_RULES[i].reason)]
         ELSE ScanRules(i + 1, f, s, curr)

\* a short-circuit that tests "promotion" alone
CategoryHitPromotionOnly(c) == Contains(c, "promotion")

\* the category short-circuit test of apply_user_overrides
CategoryHit(c) ==
    Contains(c, "newsletter") \/ Contains(c, "promotion") \/ Contains(c, "promotions")

\* apply_user_overrides(from_addr, subject, curr_decision, category_text)
\* from_addr, subject: optional texts; category_text: optional text
apply_user_overrides(from_addr, subject, curr_decision, category_text) ==
    LET f == Lower(OrEmpty(from_addr))
        s == Lower(OrEmpty(subject))
        c == Lower(OrEmpty(category_text))
    IN  IF CategoryHit(c)
        THEN [decision |-> "delete", reason |-> Some("rule: ia category=promo/newsletter")]
        ELSE ScanRules(1, f, s, curr_decision)

-----------------------------------------------------------------------------
(* Oracle response texts as sequences of lexemes.                          *)
(*   p    one of the punctuation characters { } [ ] : ,                    *)
(*   str  a complete quoted string, s is the text between the quotes       *)
(*   num  a decimal literal with one fractional digit, n is its value in   *)
(*        tenths (9 is the literal 0.9, 0 is 0.0)                          *)
(*   lit  null, true or false                                              *)
(*   word a run of prose outside any quote                                 *)
(*   ustr an opening quote and text with no closing quote (a truncation)   *)

Tok(k, s, n) == [k |-> k, s |-> s, n |-> n]

P(c) == Tok("p", c, 0)

S(t) == Tok("str", t, 0)

N(v) == Tok("num", "", v)

L(t) == Tok("lit", t, 0)

W(t) == Tok("word", t, 0)

U(t) == Tok("ustr", t, 0)

(* JSON values as json.loads builds them.  A dict is the sequence of its   *)
(* <<key, value>> items, one item per key.                                 *)

VStr(s) == [t |-> "str", s |-> s]

VNum(n) == [t |-> "num", n |-> n]

VNull == [t |-> "null"]

VBool(b) == [t |-> "bool", b |-> b]

VList(items) == [t |-> "list", items |-> items]

VObj(items) == [t |-> "obj", items |-> items]

ParseFail == [ok |-> FALSE, v |-> VNull, next |-> 0]

ParseOk(v, next) == [ok |-> TRUE, v |-> v, next |-> next]

\* dict[key] = v: a repeated key keeps its place and takes the later value
DictPut(items, key, v) ==
    IF \E j \in 1..Len(items) : items[j][1] = key
    THEN [j \in 1..Len(items) |-> IF items[j][1] = key THEN <<key, v>> ELSE items[j]]
    ELSE Append(items, <<key, v>>)

\* dict.get(key): the value, or None (VNull) when the key is absent
DictGet(obj, key) ==
    IF \E j \in 1..Len(obj.items) : obj.items[j][1] = key
    THEN obj.items[CHOOSE j \in 1..Len(obj.items) : obj.items[j][1] = key][2]
    ELSE VNull

RECURSIVE ParseValue(_, _)
RECURSIVE ParseMembers(_, _, _)
RECURSIVE ParseElements(_, _, _)

\* the members of an object after "{" or ",": key ":" value, then "," or "}"
ParseMembers(toks, i, acc) ==
    IF i + 1 > Len(toks) \/ toks[i].k # "str" \/ toks[i + 1] # P(":") THEN ParseFail
    ELSE LET r == ParseValue(toks, i + 2)
         IN  IF ~r.ok \/ r.next > Len(toks) THEN ParseFail
             ELSE IF toks[r.next] = P(",")
                  THEN ParseMembers(toks, r.next + 1, DictPut(acc, toks[i].s, r.v))
             ELSE IF toks[r.next] = P("}")
                  THEN ParseOk(VObj(DictPut(acc, toks[i].s, r.v)), r.next + 1)
             ELSE ParseFail

\* the elements of an array after "[" or ",": value, then "," or "]"
ParseElements(toks, i, acc) ==
    LET r == ParseValue(toks, i)
    IN  IF ~r.ok \/ r.next > Len(toks) THEN ParseFail
        ELSE IF toks[r.next] = P(",")
             THEN ParseElements(toks, r.next + 1, Append(acc, r.v))
        ELSE IF toks[r.next] = P("]")
             THEN ParseOk(VList(Append(acc, r.v)), r.next + 1)
        ELSE ParseFail

\* one JSON value starting at lexeme i
ParseValue(toks, i) ==
    IF i > Len(toks) THEN ParseFail
    ELSE LET x == toks[i]
         IN  IF x.k = "str" THEN ParseOk(VStr(x.s), i + 1)
             ELSE IF x.k = "num" THEN ParseOk(VNum(x.n), i + 1)
             ELSE IF x.k = "lit"
                  THEN ParseOk(IF x.s = "null" THEN VNull ELSE VBool(x.s = "true"), i + 1)
             ELSE IF x = P("{")
                  THEN IF i + 1 <= Len(toks) /\ toks[i + 1] = P("}")
                       THEN ParseOk(VObj(<<>>), i + 2)
                       ELSE ParseMembers(toks, i + 1, <<>>)
             ELSE IF x = P("[")
                  THEN IF i + 1 <= Len(toks) /\ toks[i + 1] = P("]")
                       THEN ParseOk(VList(<<>>), i + 2)
                       ELSE ParseElements(toks, i + 1, <<>>)
             ELSE ParseFail

\* json.loads(text): one value spanning the whole text, else an exception
json_loads(toks) ==
    LET r == ParseValue(toks, 1)
    IN  IF r.ok /\ r.next = Len(toks) + 1 THEN r ELSE ParseFail

-----------------------------------------------------------------------------
(* salvage_json.  The lexeme texts of this model never contain "{", "[",   *)
(* "]" or a quote, so the first "{" of a text is a punctuation lexeme; a   *)
(* text may contain "}", which str.count() counts like any other.          *)

RECURSIVE CountChar(_, _)
\* str.count(c) on a text
CountChar(s, c) ==
    IF Len(s) = 0 THEN 0
    ELSE (IF SubSeq(s, 1, 1) = c THEN 1 ELSE 0) + CountChar(SubSeq(s, 2, Len(s)), c)

\* occurrences of character c in one lexeme
TokCount(x, c) ==
    IF x.k = "p" THEN (IF x.s = c THEN 1 ELSE 0)
    ELSE IF x.k \in {"str", "ustr", "word"} THEN CountChar(x.s, c)
    ELSE 0

RECURSIVE Count(_, _)
\* chunk.count(c)
Count(toks, c) ==
    IF Len(toks) = 0 THEN 0 ELSE TokCount(toks[1], c) + Count(Tail(toks), c)

\* '}' * n
Braces(n) == [j \in 1..n |-> P("}")]

\* re.search(r'\{.*', text, re.S): the text from its first "{" on, or None
FromFirstBrace(toks) ==
    IF \E i \in 1..Len(toks) : toks[i] = P("{")
    THEN LET i == CHOOSE j \in 1..Len(toks) :
                      toks[j] = P("{") /\ \A h \in 1..(j - 1) : toks[h] # P("{")
         IN  Some(SubSeq(toks, i, Len(toks)))
    ELSE None

\* the chunk handed to json.loads: braces completed when "}" are fewer
BalancedChunk(chunk) ==
    LET ob == Count(chunk, "{")
        cb == Count(chunk, "}")
    IN  IF cb < ob THEN chunk \o Braces(ob - cb) ELSE chunk

\* positions where  "key" \s* : \s* "value"  matches (value not empty),
\* the key compared without case (re.I)
QuotedFieldAt(toks, key) ==
    {i \in 1..(Len(toks) - 2) :
        /\ toks[i].k = "str" /\ Lower(toks[i].s) = key
        /\ toks[i + 1] = P(":")
        /\ toks[i + 2].k = "str" /\ toks[i + 2].s # ""}

\* positions where  "confidence" \s* : \s* [0-9.]+  matches
NumFieldAt(toks, key) ==
    {i \in 1..(Len(toks) - 2) :
        /\ toks[i].k = "str" /\ Lower(toks[i].s) = key
        /\ toks[i + 1] = P(":")
        /\ toks[i + 2].k = "num"}

\* positions where  "category" \s* : \s* \[ [^\]]* \]  matches
ListFieldAt(toks, key) ==
    {i \in 1..(Len(toks) - 3) :
        /\ toks[i].k = "str" /\ Lower(toks[i].s) = key
        /\ toks[i + 1] = P(":")
        /\ toks[i + 2] = P("[")
        /\ \E j \in (i + 3)..Len(toks) : toks[j] = P("]")}

\* re.search returns the leftmost match
First(positions) == CHOOSE i \in positions : \A j \in positions : i <= j

\* re.findall(r'"([^"]+)"', ...) over the bracket contents that start at i
RECURSIVE QuotedItems(_, _)
QuotedItems(toks, i) ==
    IF i > Len(toks) \/ toks[i] = P("]") THEN <<>>
    ELSE IF toks[i].k = "str" /\ toks[i].s # ""
         THEN <<VStr(toks[i].s)>> \o QuotedItems(toks, i + 1)
         ELSE QuotedItems(toks, i + 1)

\* the tolerant per-field extraction of salvage_json: the dict `data`
TolerantFields(toks) ==
    LET d0 == <<>>
        dp == QuotedFieldAt(toks, "decision")
        d1 == IF dp # {} THEN DictPut(d0, "decision", VStr(Lower(toks[First(dp) + 2].s)))
              ELSE d0
        cp == NumFieldAt(toks, "confidence")
        d2 == IF cp # {} THEN DictPut(d1, "confidence", VNum(toks[First(cp) + 2].n))
              ELSE d1
        sp == QuotedFieldAt(toks, "summary")
        d3 == IF sp # {} THEN DictPut(d2, "summary", VStr(toks[First(sp) + 2].s))
              ELSE d2
        lp == ListFieldAt(toks, "category")
        d4 == IF lp # {} THEN DictPut(d3, "category", VList(QuotedItems(toks, First(lp) + 3)))
              ELSE d3
    IN  d4

\* a salvage that gives up when the completed chunk does not parse
salvage_json_NoPatterns(resp_text) ==
    IF Len(resp_text) = 0 THEN VNull
    ELSE LET m == FromFirstBrace(resp_text)
             r == IF m = None THEN ParseFail ELSE json_loads(BalancedChunk(m[1]))
         IN  IF r.ok THEN r.v ELSE VNull

\* salvage_json(resp_text): a JSON value, or None (VNull)
salvage_json(resp_text) ==
    IF Len(resp_text) = 0 THEN VNull
    ELSE LET m == FromFirstBrace(resp_text)
             r == IF m = None THEN ParseFail ELSE json_loads(BalancedChunk(m[1]))
             data == TolerantFields(resp_text)
         IN  IF r.ok THEN r.v
             ELSE IF Len(data) > 0 THEN VObj(data) ELSE VNull

-----------------------------------------------------------------------------
(* The oracle response texts of the model: the objects of no, one or two   *)
(* members drawn from Members, every truncation of such an object (after   *)
(* any lexeme, or inside its last string), an object wrapped in prose, and *)
(* texts that are not objects at all.                                      *)

Member(key, value) == <<S(key), P(":")>> \o value

Members == {
    Member("decision", <<S("keep")>>),
    Member("decision", <<S("delete")>>),
    Member("decision", <<S("Delete")>>),
    Member("decision", <<S("maybe")>>),
    Member("decision", <<N(10)>>),
    Member("confidence", <<N(9)>>),
    Member("confidence", <<N(3)>>),
    Member("confidence", <<N(0)>>),
    Member("confidence", <<S("high")>>),
    Member("reason", <<S("security alert")>>),
    Member("reason", <<S("a } b")>>),
    Member("summary", <<S("weekly newsletter")>>),
    Member("category", <<P("["), S("Newsletter"), P(","), S("Voyage"), P("]")>>),
    Member("category", <<S("Bancaire")>>),
    Member("meta", <<P("{"), S("decision"), P(":"), S("keep"), P("}")>>),
    Member("note", <<S("see above")>>) }

Object0 == <<P("{"), P("}")>>

Object1(m) == <<P("{")>> \o m \o <<P("}")>>

Object2(m1, m2) == <<P("{")>> \o m1 \o <<P(",")>> \o m2 \o <<P("}")>>

Objects ==
    {Object0} \cup {Object1(m) : m \in Members}
    \cup {Object2(m[1], m[2]) : m \in Members \X Members}

\* the text cut inside its last lexeme when that is a string
CutInString(toks) ==
    [j \in 1..Len(toks) |-> IF j = Len(toks) THEN U(toks[j].s) ELSE toks[j]]

Truncations(toks) ==
    {SubSeq(toks, 1, n) : n \in 0..Len(toks)}
    \cup {CutInString(SubSeq(toks, 1, n)) : n \in {h \in 1..Len(toks) : toks[h].k = "str"}}

NonObjects == {
    <<>>,
    <<W("sorry")>>,
    <<W("decision"), W("keep")>>,
    <<L("null")>>,
    <<L("true")>>,
    <<N(0)>>,
    <<N(7)>>,
    <<S("keep")>>,
    <<P("["), P("]")>>,
    <<P("["), S("keep"), P("]")>> }

Wrapped ==
    {<<W("Answer")>> \o Object1(m) : m \in Members}
    \cup {Object1(m) \o <<W("done")>> : m \in Members}

Responses == UNION {Truncations(o) : o \in Objects} \cup NonObjects \cup Wrapped

Object3(m1, m2, m3) == <<P("{")>> \o m1 \o <<P(",")>> \o m2 \o <<P(",")>> \o m3 \o <<P("}")>>

\* {"decision": "keep", "confidence": 0.9, "reason": "security alert"}
KeepAnswer ==
    Object3(Member("decision", <<S("keep")>>), Member("confidence", <<N(9)>>),
            Member("reason", <<S("security alert")>>))

-----------------------------------------------------------------------------
(* Python value helpers used by decide_ai                                  *)

\* bool(v)
Truthy(v) ==
    IF v.t = "null" THEN FALSE
    ELSE IF v.t = "bool" THEN v.b
    ELSE IF v.t = "num" THEN v.n # 0
    ELSE IF v.t = "str" THEN v.s # ""
    ELSE Len(v.items) > 0

\* `v or default`
OrElse(v, default) == IF Truthy(v) THEN v ELSE default

Digits == "0123456789"

IsDigit(c) == \E d \in 1..10 : SubSeq(Digits, d, d) = c

DigitVal(c) == (CHOOSE d \in 1..10 : SubSeq(Digits, d, d) = c) - 1

RECURSIVE NatStr(_)
\* str(n) for a natural number
NatStr(n) ==
    IF n < 10 THEN SubSeq(Digits, n + 1, n + 1)
    ELSE NatStr(n \div 10) \o SubSeq(Digits, (n % 10) + 1, (n % 10) + 1)

\* str(x) of a float with one fractional digit, x given in tenths
FloatStr(n) == NatStr(n \div 10) \o "." \o NatStr(n % 10)

\* float(text) for the numeric texts "d" and "d.d": <<tenths>>, or None
\* when float() raises ValueError
ParseFloatStr(s) ==
    IF Len(s) = 1 /\ IsDigit(s) THEN Some(10 * DigitVal(s))
    ELSE IF /\ Len(s) = 3
            /\ IsDigit(SubSeq(s, 1, 1)) /\ SubSeq(s, 2, 2) = "." /\ IsDigit(SubSeq(s, 3, 3))
         THEN Some(10 * DigitVal(SubSeq(s, 1, 1)) + DigitVal(SubSeq(s, 3, 3)))
    ELSE None

\* text[:n]
Clip(s, n) == IF Len(s) > n THEN SubSeq(s, 1, n) ELSE s

RECURSIVE LStrip(_, _)
LStrip(s, chars) ==
    IF Len(s) > 0 /\ Contains(chars, SubSeq(s, 1, 1)) THEN LStrip(SubSeq(s, 2, Len(s)), chars)
    ELSE s

RECURSIVE RStrip(_, _)
RStrip(s, chars) ==
    IF Len(s) > 0 /\ Contains(chars, SubSeq(s, Len(s), Len(s)))
    THEN RStrip(SubSeq(s, 1, Len(s) - 1), chars)
    ELSE s

\* text.strip(chars)
StripChars(s, chars) == RStrip(LStrip(s, chars), chars)

\* text.strip(): the texts of the model hold no white space but " "
Strip(s) == StripChars(s, " ")

\* str(x) for an item of a category list
PyStr(v) ==
    IF v.t = "str" THEN v.s
    ELSE IF v.t = "null" THEN "None"
    ELSE IF v.t = "bool" THEN (IF v.b THEN "True" ELSE "False")
    ELSE IF v.t = "num" THEN FloatStr(v.n)
    ELSE IF v.t = "list" THEN "[...]"
    ELSE "{...}"

RECURSIVE JoinTexts(_, _)
\* sep.join(texts)
JoinTexts(texts, sep) ==
    IF Len(texts) = 0 THEN ""
    ELSE IF Len(texts) = 1 THEN texts[1]
    ELSE texts[1] \o sep \o JoinTexts(Tail(texts), sep)

-----------------------------------------------------------------------------
(* run_ollama: one oracle call is the sequence of the outcomes of its      *)
(* request attempts ("ok" or "fail") and the text the service answers.     *)

Tries == 2

\* the attempts a call makes: it stops at the first "ok", at most Tries
AttemptPatterns ==
    {a \in UNION {[1..n -> {"ok", "fail"}] : n \in 1..Tries} :
        /\ \A j \in 1..(Len(a) - 1) : a[j] = "fail"
        /\ a[Len(a)] = "fail" => Len(a) = Tries}

\* run_ollama(...): <<text>> when an attempt succeeds, None when the last
\* exception is raised to the caller
run_ollama(attempts, text) ==
    IF \E j \in 1..Len(attempts) : attempts[j] = "ok" THEN Some(text) ELSE None

-----------------------------------------------------------------------------
(* run_ollama step by step: the loop of request attempts.  `last` holds    *)
(* the locals of the call and what it did to the service so far.           *)

\* delay = 3
InitialDelay == 3

\* the payload of the request
Payload(c) ==
    [model |-> c.model, prompt |-> c.prompt, stream |-> FALSE,
     options |-> c.options, format |-> IF c.force_json THEN Some("json") ELSE None]

LoopContinuesOnceMore(tried) == tried <= Tries

\* for _ in range(tries): another iteration follows `tried` ones
LoopContinues(tried) == tried < Tries

\* the call starts: payload built, delay = 3, no attempt made yet
EnterRunOllama ==
    /\ pc = "idle"
    /\ call # None /\ call.fn = "run_ollama"
    /\ ret = None
    /\ last = None
    /\ last' = Some([tool |-> "run_ollama", payload |-> Payload(call), tried |-> 0,
                     delay |-> InitialDelay, in_flight |-> 0, outcomes |-> <<>>,
                     slept |-> <<>>])
    /\ pc' = IF LoopContinues(0) THEN "post" ELSE "raise"
    /\ UNCHANGED <<db, rows, idx, updated, warnings, optVars, submitted, call, ret, boxVars, diskVars>>

\* requests.post(...) is sent
PostRequest ==
    /\ pc = "post"
    /\ last' = Some([last[1] EXCEPT !.in_flight = @ + 1])
    /\ pc' = "await"
    /\ UNCHANGED <<db, rows, idx, updated, warnings, optVars, submitted, call, ret, boxVars, diskVars>>

\* the request is answered: the stripped text is returned
RequestSucceeds(text) ==
    /\ pc = "await"
    /\ last' = Some([last[1] EXCEPT !.in_flight = @ - 1,
                                    !.outcomes = Append(@, "ok")])
    /\ ret' = Some(Some(Strip(text)))
    /\ pc' = "done"
    /\ UNCHANGED <<db, rows, idx, updated, warnings, optVars, submitted, call, boxVars, diskVars>>

\* the request fails (refused, timed out, bad status, bad body): the
\* exception is caught
RequestFails ==
    /\ pc = "await"
    /\ last' = Some([last[1] EXCEPT !.in_flight = @ - 1,
                                    !.outcomes = Append(@, "fail")])
    /\ pc' = "sleep"
    /\ UNCHANGED <<db, rows, idx, updated, warnings, optVars, submitted, call, ret, boxVars, diskVars>>

\* time.sleep(delay); delay *= 2, then the next iteration or the end of
\* the loop
SleepAndDouble ==
    /\ pc = "sleep"
    /\ last' = Some([last[1] EXCEPT !.slept = Append(@, last[1].delay),
                                    !.delay = 2 * @,
                                    !.tried = @ + 1])
    /\ pc' = IF LoopContinues(last[1].tried + 1) THEN "post" ELSE "raise"
    /\ UNCHANGED <<db, rows, idx, updated, warnings, optVars, submitted, call, ret, boxVars, diskVars>>

\* raise last: the caller gets the exception
RaiseLast ==
    /\ pc = "raise"
    /\ ret' = Some(None)
    /\ pc' = "done"
    /\ UNCHANGED <<db, rows, idx, updated, warnings, optVars, submitted, last, call, boxVars, diskVars>>

-----------------------------------------------------------------------------
(* decide_ai: the body of the try block for one message                    *)

ValidDecisions == {"keep", "archive", "delete"}

ConfidenceOfDefault(data) == 5

\* float(data.get("confidence") or 0.5), 0.5 when float() raises
ConfidenceOf(data) ==
    LET c == OrElse(DictGet(data, "confidence"), VNum(5))
    IN  IF c.t = "num" THEN c.n
        ELSE IF c.t = "bool" THEN (IF c.b THEN 10 ELSE 0)
        ELSE IF c.t = "str"
             THEN (IF ParseFloatStr(c.s) = None THEN 5 ELSE ParseFloatStr(c.s)[1])
        ELSE 5

\* the items joined into `cat`: a text alone, the items of a list, the
\* keys of a dict
CategoryItems(c) ==
    IF c.t = "str" THEN <<c>>
    ELSE IF c.t = "list" THEN c.items
    ELSE [j \in 1..Len(c.items) |-> VStr(c.items[j][1])]

Fields(err, decision, conf, reason, cat, summ) ==
    [err |-> err, decision |-> decision, conf |-> conf, reason |-> reason,
     cat |-> cat, summ |-> summ]

\* the locals set at line 179
DefaultFields == Fields(FALSE, "archive", 5, "fallback", "", "")

\* lines 190-200: the fields read from `data`; err when the block raises
\* (AttributeError on .get or .lower, TypeError on a slice or an iteration,
\* or a list that sqlite3 later refuses to bind)
FieldsOf(data) ==
    IF ~Truthy(data) THEN DefaultFields
    ELSE IF data.t # "obj" THEN Fields(TRUE, "", 0, "", "", "")
    ELSE LET d == OrElse(DictGet(data, "decision"), VStr("archive"))
             r == OrElse(DictGet(data, "reason"), VStr(""))
             c == OrElse(DictGet(data, "category"), VList(<<>>))
             s == OrElse(DictGet(data, "summary"), VStr(""))
         IN  IF d.t # "str" \/ r.t # "str" \/ c.t \notin {"str", "list", "obj"} \/ s.t # "str"
             THEN Fields(TRUE, "", 0, "", "", "")
             ELSE Fields(FALSE,
                         IF Lower(d.s) \in ValidDecisions THEN Lower(d.s) ELSE "archive",
                         ConfidenceOf(data),
                         Clip(r.s, 300),
                         Clip(JoinTexts([j \in 1..Len(CategoryItems(c)) |->
                                            PyStr(CategoryItems(c)[j])], ", "), 120),
                         Clip(s.s, 1000))

\* the note appended by the confidence gate
DowngradeNote(threshold) == " | downgraded: conf<" \o FloatStr(threshold)

\* lines 203-205: the confidence gate
ConfidenceGate(decision, conf, reason, threshold) ==
    IF decision = "delete" /\ conf < threshold
    THEN [decision |-> "archive", reason |-> Strip(reason \o DowngradeNote(threshold))]
    ELSE [decision |-> decision, reason |-> reason]

\* the override reason appended whenever there is one
ReasonAfterOverrideAlways(decision_before, reason, ov) ==
    IF ov.reason # None
    THEN Strip(reason \o " | " \o ov.reason[1])
    ELSE reason

\* lines 208-212: the reason after the override engine answered ov
ReasonAfterOverride(decision_before, reason, ov) ==
    IF ov.reason # None /\ decision_before # ov.decision
    THEN Strip(reason \o " | " \o ov.reason[1])
    ELSE reason

\* lines 184-212 for one message: what the UPDATE is given, the values on
\* the way to it, and err when an exception leaves the block
Resolve(frm, sub, resp, threshold) ==
    LET parsed == json_loads(resp)
        data   == IF parsed.ok THEN parsed.v ELSE salvage_json(resp)
        f      == FieldsOf(data)
        g      == ConfidenceGate(f.decision, f.conf, f.reason, threshold)
        ov     == apply_user_overrides(frm, sub, g.decision, Some(f.cat))
    IN  [err |-> f.err, data |-> data, parsed |-> f.decision, gated |-> g.decision,
         decision |-> ov.decision, conf |-> f.conf,
         reason |-> ReasonAfterOverride(g.decision, g.reason, ov),
         override_reason |-> ov.reason, cat |-> f.cat, summ |-> f.summ]

-----------------------------------------------------------------------------
(* mail_ai_local.py: the fingerprint                                       *)

WordChars == "abcdefghijklmnopqrstuvwxyzABCDEFGHIJKLMNOPQRSTUVWXYZ0123456789_"

\* \w over the ASCII texts of the model
IsWordChar(c) == Contains(WordChars, c)

\* [\w\.-]
IsAddrChar(c) == IsWordChar(c) \/ c = "." \/ c = "-"

RECURSIVE AddrRunEnd(_, _)
\* the index after the longest run of [\w\.-] that starts at i
AddrRunEnd(s, i) ==
    IF i <= Len(s) /\ IsAddrChar(SubSeq(s, i, i)) THEN AddrRunEnd(s, i + 1) ELSE i

RECURSIVE WordRunEnd(_, _)
\* the index after the longest run of \w that starts at i
WordRunEnd(s, i) ==
    IF i <= Len(s) /\ IsWordChar(SubSeq(s, i, i)) THEN WordRunEnd(s, i + 1) ELSE i

\* EMAIL_RE matched at position p: the index after the match, 0 when none.
\* The greedy domain run backtracks to its last "." that a \w follows.
EmailMatchEnd(s, p) ==
    LET a == AddrRunEnd(s, p)
        b == AddrRunEnd(s, a + 1)
        dots == {k \in (a + 2)..(b - 2) :
                    SubSeq(s, k, k) = "." /\ IsWordChar(SubSeq(s, k + 1, k + 1))}
    IN  IF a > p /\ a <= Len(s) /\ SubSeq(s, a, a) = "@" /\ dots # {}
        THEN WordRunEnd(s, (CHOOSE k \in dots : \A h \in dots : h <= k) + 1)
        ELSE 0

RECURSIVE EmailFindAll(_, _)
\* EMAIL_RE.findall(address), scanning from position p
EmailFindAll(s, p) ==
    IF p > Len(s) THEN <<>>
    ELSE IF EmailMatchEnd(s, p) > 0
         THEN <<SubSeq(s, p, EmailMatchEnd(s, p) - 1)>> \o EmailFindAll(s, EmailMatchEnd(s, p))
         ELSE EmailFindAll(s, p + 1)

\* extract_email(address): the last address of the header, lower-cased
extract_email(address) ==
    IF address = None \/ address[1] = "" THEN None
    ELSE LET m == EmailFindAll(address[1], 1)
         IN  IF Len(m) = 0 THEN None ELSE Some(Lower(m[Len(m)]))

RECURSIVE CollapseSpaces(_)
\* re.sub(r'\s+', ' ', s): the texts of the model hold no white space but " "
CollapseSpaces(s) ==
    IF ~Contains(s, "  ") THEN s
    ELSE IF SubSeq(s, 1, 1) = " " /\ SubSeq(s, 2, 2) = " "
         THEN CollapseSpaces(SubSeq(s, 2, Len(s)))
         ELSE SubSeq(s, 1, 1) \o CollapseSpaces(SubSeq(s, 2, Len(s)))

\* An accented letter is written in the texts of the model as NFKD
\* decomposes it: the base letter followed by CombiningMark, an ASCII
\* stand-in for the combining character (U+0301 and the like).
CombiningMark == "~"

RECURSIVE ReplaceChar(_, _, _)
\* s with every character c replaced by the text `by`
ReplaceChar(s, c, by) ==
    IF ~Contains(s, c) THEN s
    ELSE (IF SubSeq(s, 1, 1) = c THEN by ELSE SubSeq(s, 1, 1))
         \o ReplaceChar(SubSeq(s, 2, Len(s)), c, by)

normalize_text_KeepCase(s) == Strip(CollapseSpaces(ReplaceChar(OrEmpty(s), CombiningMark, "")))

\* _normalize_text(s): lower(), NFKD without the combining characters,
\* runs of white space collapsed, strip()
normalize_text(s) == Strip(CollapseSpaces(ReplaceChar(Lower(OrEmpty(s)), CombiningMark, "")))

\* hashlib.sha1(key).hexdigest(): distinct keys have distinct digests
Sha1(key) == "sha1:" \o key

\* make_fp(from_addr, subject)
make_fp(from_addr, subject) ==
    Sha1(OrEmpty(extract_email(from_addr)) \o "|" \o normalize_text(subject))

-----------------------------------------------------------------------------
(* mail_ai_local.py: the heuristic rule matcher.  A domain pattern is the  *)
(* set of literal texts its alternation stands for, searched anywhere.  A  *)
(* subject pattern is such a set between two \b.  Subjects are normalised  *)
(* before the search, so the accented variants of a pattern never match    *)
(* and are left out; labels are written without their accents.             *)

LabelRule(alts, labs) == [alts |-> alts, labs |-> labs]

DOMAIN_RULES == <<
    LabelRule({"paypal.fr", "paypal.com"}, <<"Bancaire", "Factures">>),
    LabelRule({"linkedin.com"}, <<"Reseaux sociaux">>),
    LabelRule({"news.leboncoin.fr", "leboncoin"}, <<"Promotions", "Newsletter">>),
    LabelRule({"notice.aliexpress.com", "aliexpress"}, <<"Promotions">>),
    LabelRule({"binance.", "uphold."}, <<"Finance">>),
    LabelRule({"google.", "accounts.google."}, <<"Notifications", "Securite">>),
    LabelRule({"news.veepee.fr", "veepee"}, <<"Promotions">>),
    LabelRule({"twitch.tv", "steampowered.com"}, <<"Technique", "Notifications">>),
    LabelRule({"shopmail.samsung.com", "samsung"}, <<"Commandes", "Livraison">>),
    LabelRule({"cds.newsletter-cdiscount.com", "cdiscount"}, <<"Newsletter", "Promotions">>),
    LabelRule({"microsoftstore.microsoft.com", "microsoft-noreply@", "billing.microsoft.com"},
              <<"Factures", "Bancaire">>),
    LabelRule({"mail.toogoodtogo.fr"}, <<"Promotions">>),
    LabelRule({"email.carrefour.fr"}, <<"Promotions">>),
    LabelRule({"newsletter.volotea.com", "volotea"}, <<"Voyage", "Promotions">>),
    LabelRule({"quora.com"}, <<"Newsletter">>),
    LabelRule({"google-gemini-noreply@", "gemini"}, <<"Technique", "Notifications">>)
>>

SUBJECT_RULES == <<
    LabelRule({"remboursement", "rembourse", "refund"}, <<"Bancaire">>),
    LabelRule({"paiement", "facture", "recu", "echeance", "invoice", "receipt", "payment"},
              <<"Factures", "Bancaire">>),
    LabelRule({"achat", "abonnement", "subscription"}, <<"Factures">>),
    LabelRule({"commande", "order", "merci pour votre commande"}, <<"Commandes">>),
    LabelRule({"livraison", "expedition", "colis", "tracking"}, <<"Livraison">>),
    LabelRule({"code", "verification", "2fa", "security code"}, <<"Technique", "Notifications">>),
    LabelRule({"newsletter", "selection", "promo", "promotion",
               "vente privee", "ventes privee", "vente privees", "ventes privees",
               "remise", "reduction",
               "bon plan", "bons plan", "bon plans", "bons plans"},
              <<"Newsletter", "Promotions">>)
>>

\* domain_of(addr): the text after the first "@", lower-cased
domain_of(addr) ==
    IF addr = None \/ ~Contains(addr[1], "@") THEN None
    ELSE LET at == CHOOSE i \in 1..Len(addr[1]) :
                      /\ SubSeq(addr[1], i, i) = "@"
                      /\ \A j \in 1..(i - 1) : SubSeq(addr[1], j, j) # "@"
         IN  Some(Lower(SubSeq(addr[1], at + 1, Len(addr[1]))))

\* re.search of a domain pattern
DomainSearch(alts, text) == \E a \in alts : Contains(text, a)

\* \b on either side of the literal a found at position i of s
AtWordBounds(s, i, a) ==
    /\ SubSeq(s, i, i + Len(a) - 1) = a
    /\ i = 1 \/ ~IsWordChar(SubSeq(s, i - 1, i - 1))
    /\ i + Len(a) > Len(s) \/ ~IsWordChar(SubSeq(s, i + Len(a), i + Len(a)))

\* re.search of a subject pattern, flags=re.I, in a normalised subject
SubjectSearch(alts, s) ==
    \E a \in alts : \E i \in 1..(Len(s) - Len(a) + 1) : AtWordBounds(s, i, a)

InSeq(x, seq) == \E i \in 1..Len(seq) : seq[i] = x

RECURSIVE AddLabels(_, _)
\* for lb in labs: if lb not in labels: labels.append(lb)
AddLabels(labels, labs) ==
    IF Len(labs) = 0 THEN labels
    ELSE AddLabels(IF InSeq(labs[1], labels) THEN labels ELSE Append(labels, labs[1]),
                   Tail(labs))

RECURSIVE ScanDomainRules(_, _, _, _)
\* the loop over DOMAIN_RULES, from rule i on
ScanDomainRules(i, email, dom, labels) ==
    IF i > Len(DOMAIN_RULES) THEN labels
    ELSE ScanDomainRules(i + 1, email, dom,
            IF DomainSearch(DOMAIN_RULES[i].alts, email) \/ DomainSearch(DOMAIN_RULES[i].alts, dom)
            THEN AddLabels(labels, DOMAIN_RULES[i].labs)
            ELSE labels)

RECURSIVE ScanSubjectRules(_, _, _)
\* the loop over SUBJECT_RULES, from rule i on
ScanSubjectRules(i, s, labels) ==
    IF i > Len(SUBJECT_RULES) THEN labels
    ELSE ScanSubjectRules(i + 1, s,
            IF SubjectSearch(SUBJECT_RULES[i].alts, s)
            THEN AddLabels(labels, SUBJECT_RULES[i].labs)
            ELSE labels)

\* no cut
TakeAll(seq, n) == seq

\* seq[:n]
Take(seq, n) == IF Len(seq) > n THEN SubSeq(seq, 1, n) ELSE seq

\* the labels of heuristic_label before the cut and the join
HeuristicLabels(from_addr, subject) ==
    LET email == OrEmpty(extract_email(from_addr))
        dom   == OrEmpty(domain_of(Some(email)))
    IN  ScanSubjectRules(1, normalize_text(subject),
                         ScanDomainRules(1, email, dom, <<>>))

\* heuristic_label(from_addr, subject)
heuristic_label(from_addr, subject) ==
    JoinTexts(Take(HeuristicLabels(from_addr, subject), 3), ", ")

-----------------------------------------------------------------------------
(* summarize_batch: the body of the try block for one message              *)

\* the characters of one lexeme
RenderTok(t) ==
    IF t.k = "str" THEN "\"" \o t.s \o "\""
    ELSE IF t.k = "ustr" THEN "\"" \o t.s
    ELSE IF t.k = "num" THEN FloatStr(t.n)
    ELSE t.s

RECURSIVE Render(_)
\* the text of a response: its lexemes, one space between two of them
Render(toks) ==
    IF Len(toks) = 0 THEN ""
    ELSE IF Len(toks) = 1 THEN RenderTok(toks[1])
    ELSE RenderTok(toks[1]) \o " " \o Render(Tail(toks))

\* re.search(r'\{.*\}', resp, flags=re.S): from the first "{" to the last
\* "}" of the text.  When that "}" is a character inside a later string or
\* word, the match ends inside the lexeme and is no JSON text: None.
GreedyObject(toks) ==
    LET opens  == {i \in 1..Len(toks) : toks[i] = P("{")}
        first  == CHOOSE i \in opens : \A j \in opens : i <= j
        closes == {j \in 1..Len(toks) : j > first /\ toks[j] = P("}")}
        last_  == CHOOSE j \in closes : \A h \in closes : h <= j
    IN  IF opens = {} \/ closes = {} THEN None
        ELSE IF \E h \in (last_ + 1)..Len(toks) : Contains(toks[h].s, "}") THEN None
        ELSE Some(SubSeq(toks, first, last_))

\* `parsed` of lines 523-532; None is VNull
ParsedOf(resp) ==
    IF json_loads(resp).ok THEN json_loads(resp).v
    ELSE IF GreedyObject(resp) # None /\ json_loads(GreedyObject(resp)[1]).ok
         THEN json_loads(GreedyObject(resp)[1]).v
         ELSE VNull

\* positions where  "key" \s* : \s* "value"  matches, the key as written
QuotedFieldExact(toks, key) == {i \in QuotedFieldAt(toks, Lower(key)) : toks[i].s = key}

\* positions where  "key" \s* : \s* \[ [^\]]* \]  matches, the key as written
ListFieldExact(toks, key) == {i \in ListFieldAt(toks, Lower(key)) : toks[i].s = key}

\* salvage_llm_output(resp_text): the pair (summary, labels)
salvage_llm_output(resp_text) ==
    LET m  == FromFirstBrace(resp_text)
        r  == IF m = None THEN ParseFail ELSE json_loads(BalancedChunk(m[1]))
        lb == OrElse(DictGet(r.v, "labels"), VList(<<>>))
        sp == QuotedFieldExact(resp_text, "summary")
        lp == ListFieldExact(resp_text, "labels")
    IN  IF Len(resp_text) = 0 THEN [summary |-> VNull, labels |-> VList(<<>>)]
        ELSE IF r.ok
             THEN [summary |-> DictGet(r.v, "summary"),
                   labels  |-> IF lb.t = "str" THEN VList(<<lb>>) ELSE lb]
             ELSE [summary |-> IF sp # {} THEN VStr(Strip(resp_text[First(sp) + 2].s))
                               ELSE VNull,
                   labels  |-> IF lp # {} THEN VList(QuotedItems(resp_text, First(lp) + 3))
                               ELSE VList(<<>>)]

RECURSIVE SplitOn(_, _, _)
\* text.split(sep) for a separator of one character; acc is the piece read
SplitOn(text, sep, acc) ==
    IF Len(text) = 0 THEN <<acc>>
    ELSE IF SubSeq(text, 1, 1) = sep
         THEN <<acc>> \o SplitOn(SubSeq(text, 2, Len(text)), sep, "")
         ELSE SplitOn(SubSeq(text, 2, Len(text)), sep, acc \o SubSeq(text, 1, 1))

\* [x.strip() for x in labs_h.split(',') if x.strip()]
SplitLabels(labs_h) ==
    LET pieces == SplitOn(labs_h, ",", "")
    IN  [i \in 1..Len(SelectSeq(pieces, LAMBDA x : Strip(x) # "")) |->
            VStr(Strip(SelectSeq(pieces, LAMBDA x : Strip(x) # "")[i]))]

\* the characters of a text, as a list of texts
Chars(s) == [i \in 1..Len(s) |-> SubSeq(s, i, i)]

\* ", ".join(labels_list[:5]): <<text>>, or None when it raises TypeError
JoinLabels(labels_list) ==
    IF labels_list.t = "list"
    THEN IF \A i \in 1..Len(Take(labels_list.items, 5)) : labels_list.items[i].t = "str"
         THEN Some(JoinTexts([i \in 1..Len(Take(labels_list.items, 5)) |->
                                  labels_list.items[i].s], ", "))
         ELSE None
    ELSE IF labels_list.t = "str"
         THEN Some(JoinTexts(Chars(Clip(labels_list.s, 5)), ", "))
         ELSE None

\* the except clause of line 563: heuristics alone
SummaryFallback(from_addr, subject) ==
    [failed |-> TRUE, summary |-> "", labels_str |-> heuristic_label(from_addr, subject)]

\* lines 516-552 for the answer resp: the summary and the labels to write
Summarize(from_addr, subject, resp) ==
    LET parsed == ParsedOf(resp)
        salv   == salvage_llm_output(resp)
        found  == Truthy(salv.summary) \/ Truthy(salv.labels)
        sv     == IF parsed = VNull
                  THEN IF found THEN OrElse(salv.summary, VStr("")) ELSE VStr(Render(resp))
                  ELSE IF parsed.t = "obj" THEN OrElse(DictGet(parsed, "summary"), VStr(""))
                       ELSE VNull
        ll     == IF parsed = VNull
                  THEN IF found THEN OrElse(salv.labels, VList(<<>>)) ELSE VList(<<>>)
                  ELSE IF parsed.t = "obj" THEN OrElse(DictGet(parsed, "labels"), VList(<<>>))
                       ELSE VNull
        labs_h == heuristic_label(from_addr, subject)
        fused  == IF ~Truthy(ll) /\ labs_h # "" THEN VList(SplitLabels(labs_h)) ELSE ll
    IN  IF sv.t # "str" \/ JoinLabels(fused) = None
        THEN SummaryFallback(from_addr, subject)
        ELSE [failed |-> FALSE, summary |-> Clip(Strip(sv.s), 1000),
              labels_str |-> JoinLabels(fused)[1]]

-----------------------------------------------------------------------------
(* The emails table and decide_ai                                          *)

NumMsgs == 2

Ids == 1..NumMsgs

\* the ingested messages: From header, Subject header, length of the body
Mail == {
    <<Some("alerts@bank.example.com"), Some("Unusual sign-in detected"), 300>>,
    <<Some("promo@newsletter.example.com"), Some("50% OFF - flash sale"), 300>>,
    <<Some("Digest@Quora.com"), Some("Your weekly Newsletter"), 300>>,
    <<Some(""), Some(""), 0>> }

\* the Message-ID ingest_mbox stores for the message of row i
IngestedIds == [i \in Ids |-> Some("<m" \o NatStr(i) \o "@mail.example>")]

\* the mailbox the messages were exported from: all of them in INBOX with
\* the given labels defined, but for the messages of `gone`
Mailbox(labels, gone) ==
    [labels |-> labels,
     msgs |-> [g \in {"gmail:m" \o NatStr(i) \o "@mail.example" : i \in Ids \ gone}
                  |-> {"INBOX"}]]

\* no request has been sent to the provider
UntouchedMailbox ==
    /\ msg_id = IngestedIds
    /\ gmail = Mailbox({"INBOX"}, {})
    /\ api = {}

\* the row ingest_mbox inserts: classification columns NULL
NewRow(m) ==
    [from_addr |-> m[1], subject |-> m[2], body_len |-> m[3],
     fp |-> make_fp(m[1], m[2]),
     ai_decision |-> None, ai_reason |-> None, ai_conf |-> None,
     auto_labels |-> None, summary |-> None]

\* a plain assignment in place of COALESCE
CoalesceOverwrite(column, value) == Some(value)

\* COALESCE(column, value)
Coalesce(column, value) == IF column = None THEN Some(value) ELSE column

\* column IS NULL OR column = ''
IsBlank(column) == column = None \/ column = Some("")

RECURSIVE Ascending(_)
\* the ids of a set in increasing order; ids are numbered in ts DESC order
Ascending(ids) ==
    IF ids = {} THEN <<>>
    ELSE LET m == CHOOSE i \in ids : \A j \in ids : i <= j
         IN  <<m>> \o Ascending(ids \ {m})

\* ... ORDER BY ts DESC LIMIT ?
Limit(seq, limit) == IF Len(seq) > limit THEN SubSeq(seq, 1, limit) ELSE seq

\* thresholds a run may be given (tenths)
Thresholds == {0, 5, 7}

\* the table after ingest_mbox read the given messages, no tool running
InitTableOf(mails) ==
    /\ db \in [Ids -> {NewRow(m) : m \in mails}]
    /\ pc = "idle"
    /\ rows = <<>>
    /\ idx = 1
    /\ updated = 0
    /\ warnings = <<>>
    /\ min_conf_delete = 0
    /\ skip_duplicates = FALSE
    /\ dry = FALSE
    /\ submitted = {}
    /\ last = None
    /\ UntouchedMailbox
    /\ committed = db

InitTable == InitTableOf(Mail)

NoCall ==
    /\ call = None
    /\ ret = None

StartDecideAnyRow(limit, threshold) ==
    /\ pc = "idle"
    /\ rows' = Limit(Ascending(Ids), limit)
    /\ idx' = 1
    /\ updated' = 0
    /\ warnings' = <<>>
    /\ min_conf_delete' = threshold
    /\ pc' = "decide_ai"
    /\ UNCHANGED <<db, skip_duplicates, dry, submitted, last, call, ret, boxVars, diskVars>>

\* decide_ai, lines 147-169: fetch the undecided rows, reset the counter
StartDecide(limit, threshold) ==
    /\ pc = "idle"
    /\ rows' = Limit(Ascending({i \in DOMAIN db : IsBlank(db[i].ai_decision)}), limit)
    /\ idx' = 1
    /\ updated' = 0
    /\ warnings' = <<>>
    /\ min_conf_delete' = threshold
    /\ pc' = "decide_ai"
    /\ UNCHANGED <<db, skip_duplicates, dry, submitted, last, call, ret, boxVars, diskVars>>

\* the two UPDATE statements of lines 218-223
StoreDecision(row, r) ==
    [row EXCEPT !.ai_decision = Some(r.decision),
                !.ai_reason = Some(r.reason),
                !.ai_conf = Some(r.conf),
                !.auto_labels = Coalesce(row.auto_labels, r.cat),
                !.summary = IF r.summ # "" THEN Coalesce(row.summary, r.summ)
                            ELSE row.summary]

\* an except clause that swallows the failure
LogWarningSilently(seq, eid) == seq

\* print(f"[WARN] id={eid}: {e}"), line 235: the warning names the message
LogWarning(seq, eid) == Append(seq, eid)

\* an except clause that leaves the loop
AfterWarningBreak(i, n) == n + 1

\* the position of the loop after the except clause of line 234
AfterWarning(i, n) == i + 1

\* `updated % 25` of decide_ai, `updated % 20` of summarize_batch
DecideCommitEvery == 25

SummarizeCommitEvery == 20

\* a commit that comes one message late
CommitDueLate(count, every) == count % (every + 1) = 0

\* `if updated % every == 0: conn.commit()`
CommitDue(count, every) == count % every = 0

\* decide_ai, lines 170-235: one iteration of the loop, for an oracle call
\* with the given attempts and answer
DecideOne(attempts, text) ==
    /\ pc = "decide_ai"
    /\ idx <= Len(rows)
    /\ \E eid \in {rows[idx]} : \E resp \in {run_ollama(attempts, text)} :
         \E r \in {IF resp = None THEN [err |-> TRUE]
                   ELSE Resolve(db[eid].from_addr, db[eid].subject, resp[1],
                                min_conf_delete)} :
           IF r.err
           THEN /\ warnings' = LogWarning(warnings, eid)
                /\ idx' = AfterWarning(idx, Len(rows))
                /\ last' = Some([tool |-> "decide_ai", id |-> eid, attempts |-> attempts,
                                 resp |-> resp, stored |-> FALSE, r |-> r])
                /\ UNCHANGED <<db, updated, committed>>
           ELSE /\ db' = [db EXCEPT ![eid] = StoreDecision(db[eid], r)]
                /\ updated' = updated + 1
                /\ idx' = idx + 1
                /\ last' = Some([tool |-> "decide_ai", id |-> eid, attempts |-> attempts,
                                 resp |-> resp, stored |-> TRUE, r |-> r])
                /\ committed' = IF CommitDue(updated + 1, DecideCommitEvery)
                                 THEN db' ELSE committed
                /\ UNCHANGED warnings
    /\ submitted' = submitted \cup {rows[idx]}
    /\ UNCHANGED <<pc, rows, optVars, call, ret, boxVars>>

\* one iteration, the oracle call being any of the given attempt patterns
\* and, when an attempt succeeds, any of the given answers
DecideStep(patterns, texts) ==
    \/ \E attempts \in {a \in patterns : a[Len(a)] = "ok"} :
          \E text \in texts : DecideOne(attempts, text)
    \/ \E attempts \in {a \in patterns : a[Len(a)] = "fail"} : DecideOne(attempts, <<>>)

\* decide_ai, lines 237-239: the loop is over
FinishDecide ==
    /\ pc = "decide_ai"
    /\ idx > Len(rows)
    /\ pc' = "idle"
    /\ committed' = db
    /\ UNCHANGED <<db, rows, idx, updated, warnings, optVars, submitted, last, call, ret, boxVars>>

-----------------------------------------------------------------------------
(* summarize_batch and auto_label over the table.  Every row of the model  *)
(* has its fp column filled by ingest_mbox, so ensure_fp_column_and_       *)
(* backfill changes nothing and `fp or make_fp(frm, subj)` is the column.  *)

\* a dedup loop whose `seen` set is never filled
UniqForgetful(seq, seen) == seq

RECURSIVE Uniq(_, _)
\* lines 478-487: the first row of each fingerprint, `seen` carried along
Uniq(seq, seen) ==
    IF Len(seq) = 0 THEN <<>>
    ELSE IF db[seq[1]].fp \in seen THEN Uniq(Tail(seq), seen)
         ELSE <<seq[1]>> \o Uniq(Tail(seq), seen \cup {db[seq[1]].fp})

\* summarize_batch, lines 464-504: fetch the rows without a summary whose
\* body is long enough, drop the duplicates when asked to
StartSummarize(limit, min_chars, skip, d) ==
    /\ pc = "idle"
    /\ rows' = LET sel == Limit(Ascending({i \in DOMAIN db : /\ IsBlank(db[i].summary)
                                                              /\ db[i].body_len >= min_chars}),
                                limit)
               IN  IF skip THEN Uniq(sel, {}) ELSE sel
    /\ idx' = 1
    /\ updated' = 0
    /\ warnings' = <<>>
    /\ skip_duplicates' = skip
    /\ dry' = d
    /\ pc' = "summarize_batch"
    /\ UNCHANGED <<db, min_conf_delete, submitted, last, call, ret, boxVars, diskVars>>

\* the UPDATE ... WHERE id=? of a tool followed by its UPDATE ... WHERE fp=?
WriteAndPropagate(table, id, summary, labels_str) ==
    [j \in DOMAIN table |->
        IF j = id
        THEN [table[j] EXCEPT !.summary = IF summary = None THEN @ ELSE summary,
                              !.auto_labels = labels_str]
        ELSE IF table[j].fp = table[id].fp
             THEN [table[j] EXCEPT
                      !.summary = IF summary = None THEN @ ELSE Coalesce(@, summary[1]),
                      !.auto_labels = Coalesce(@, labels_str[1])]
             ELSE table[j]]

\* summarize_batch, lines 506-580: one iteration of the loop
SummarizeOne(attempts, text) ==
    /\ pc = "summarize_batch"
    /\ idx <= Len(rows)
    /\ \E id \in {rows[idx]} : \E resp \in {run_ollama(attempts, text)} :
         \E r \in {IF resp = None
                   THEN SummaryFallback(db[id].from_addr, db[id].subject)
                   ELSE Summarize(db[id].from_addr, db[id].subject, resp[1])} :
           /\ db' = IF dry THEN db
                    ELSE WriteAndPropagate(db, id, Some(r.summary), Some(r.labels_str))
           /\ updated' = IF dry THEN updated ELSE updated + 1
           /\ warnings' = IF r.failed THEN Append(warnings, id) ELSE warnings
           /\ last' = Some([tool |-> "summarize_batch", id |-> id, resp |-> resp,
                            summary |-> r.summary, labels_str |-> r.labels_str])
           /\ committed' = IF ~dry /\ CommitDue(updated + 1, SummarizeCommitEvery)
                            THEN db' ELSE committed
    /\ submitted' = submitted \cup {rows[idx]}
    /\ idx' = idx + 1
    /\ UNCHANGED <<pc, rows, optVars, call, ret, boxVars>>

SummarizeStep(patterns, texts) ==
    \/ \E attempts \in {a \in patterns : a[Len(a)] = "ok"} :
          \E text \in texts : SummarizeOne(attempts, text)
    \/ \E attempts \in {a \in patterns : a[Len(a)] = "fail"} : SummarizeOne(attempts, <<>>)

\* summarize_batch, lines 601-605
FinishSummarize ==
    /\ pc = "summarize_batch"
    /\ idx > Len(rows)
    /\ pc' = "idle"
    /\ committed' = db
    /\ UNCHANGED <<db, rows, idx, updated, warnings, optVars, submitted, last, call, ret, boxVars>>

\* auto_label, lines 392-401
StartAutoLabel(limit, only_empty) ==
    /\ pc = "idle"
    /\ rows' = Limit(Ascending({i \in DOMAIN db : only_empty => IsBlank(db[i].auto_labels)}), limit)
    /\ idx' = 1
    /\ updated' = 0
    /\ warnings' = <<>>
    /\ pc' = "auto_label"
    /\ UNCHANGED <<db, optVars, submitted, last, call, ret, boxVars, diskVars>>

\* auto_label, lines 403-411: one iteration of the loop
AutoLabelStep ==
    /\ pc = "auto_label"
    /\ idx <= Len(rows)
    /\ \E id \in {rows[idx]} :
         \E labs_str \in {heuristic_label(db[id].from_addr, db[id].subject)} :
           IF labs_str = ""
           THEN UNCHANGED <<db, updated, last>>
           ELSE /\ db' = WriteAndPropagate(db, id, None, Some(labs_str))
                /\ updated' = updated + 1
                /\ last' = Some([tool |-> "auto_label", id |-> id, labels_str |-> labs_str])
    /\ idx' = idx + 1
    /\ UNCHANGED <<pc, rows, warnings, optVars, submitted, call, ret, boxVars, diskVars>>

\* auto_label, lines 413-415
FinishAutoLabel ==
    /\ pc = "auto_label"
    /\ idx > Len(rows)
    /\ pc' = "idle"
    /\ committed' = db
    /\ UNCHANGED <<db, rows, idx, updated, warnings, optVars, submitted, last, call, ret, boxVars>>

-----------------------------------------------------------------------------
(* ai_decider.py: apply_overrides_on_db                                    *)

\* an UPDATE that also marks the decision as certain
UpdateDecisionAndConf(row, new_dec, new_reason) ==
    [row EXCEPT !.ai_decision = Some(new_dec), !.ai_reason = Some(new_reason),
                !.ai_conf = Some(10)]

\* UPDATE emails SET ai_decision=?, ai_reason=? WHERE id=?  (line 326)
UpdateDecision(row, new_dec, new_reason) ==
    [row EXCEPT !.ai_decision = Some(new_dec), !.ai_reason = Some(new_reason)]

\* the category text built from a row: auto_labels, else summary[:200]
CategoryContext(row) ==
    IF ~IsBlank(row.auto_labels) THEN row.auto_labels[1]
    ELSE IF ~IsBlank(row.summary) THEN Clip(row.summary[1], 200)
    ELSE ""

OverrideRowUnguarded(row) ==
    LET ov == apply_user_overrides(row.from_addr, row.subject, row.ai_decision[1],
                                   Some(CategoryContext(row)))
    IN  IF ov.reason # None
        THEN [row EXCEPT !.ai_decision = Some(ov.decision),
                         !.ai_reason = Some(StripChars(OrEmpty(row.ai_reason) \o " | "
                                                       \o ov.reason[1], " |"))]
        ELSE row

\* one iteration of the loop: the row after it
OverrideRow(row) ==
    LET ov == apply_user_overrides(row.from_addr, row.subject, row.ai_decision[1],
                                   Some(CategoryContext(row)))
    IN  IF ov.decision # row.ai_decision[1]
        THEN UpdateDecision(row, ov.decision,
                            IF ov.reason # None
                            THEN StripChars(OrEmpty(row.ai_reason) \o " | "
                                            \o ov.reason[1], " |")
                            ELSE OrEmpty(row.ai_reason))
        ELSE row

\* the whole run: every decided row goes through the loop body, each UPDATE
\* touches the row of its own id, the commit closes the run; `changed` is
\* the number of UPDATEs
apply_overrides_on_db ==
    /\ pc = "idle"
    /\ \E selected \in {{i \in DOMAIN db : ~IsBlank(db[i].ai_decision)}} :
         \E after \in {[i \in DOMAIN db |-> IF i \in selected THEN OverrideRow(db[i]) ELSE db[i]]} :
           /\ db' = after
           /\ committed' = after
           /\ last' = Some([tool |-> "apply_overrides_on_db",
                            changed |-> Cardinality({i \in selected :
                                           after[i].ai_decision # db[i].ai_decision}),
                            before |-> db,
                            again |-> (last # None /\ last[1].tool = "apply_overrides_on_db")])
    /\ UNCHANGED <<pc, rows, idx, updated, warnings, optVars, submitted, call, ret, boxVars>>

-----------------------------------------------------------------------------
(* apply_gmail_labels.py.  The provider is the mailbox `gmail`: the names  *)
(* of its labels and, for each message, the ids of the labels it carries.  *)
(* Every request sent to it is recorded in `api`.  The requests are taken  *)
(* to succeed.  Accented letters stand outside the ASCII texts of the      *)
(* model: the label _CLASSE_PAR_SCRIPT and the values Securite, Reseaux    *)
(* sociaux, Ecole are written without their accents, the accented keys of  *)
(* SAFE_LABELS are left out.                                               *)

\* the id the provider gives a label: a system label is its own id
LabelId(name) == IF name = "INBOX" THEN "INBOX" ELSE "Label_" \o name

\* the id of the message found by the query rfc822msgid:<rid>
Gid(rid) == "gmail:" \o rid

\* one request to the provider
Request(op, name, ids, add, remove) ==
    [op |-> op, name |-> name, ids |-> ids, add |-> add, remove |-> remove]

SAFE_LABELS == <<
    <<"promotions", "Promotions">>, <<"newsletter", "Promotions">>,
    <<"bancaire", "Bancaire">>, <<"factures", "Factures">>, <<"finance", "Finance">>,
    <<"securite", "Securite">>, <<"technique", "Technique">>, <<"travail", "Travail">>,
    <<"livraison", "Livraison">>, <<"commandes", "Commandes">>,
    <<"commandes/livraison", "Commandes/Livraison">>,
    <<"reseaux sociaux", "Reseaux sociaux">>, <<"ecole", "Ecole">>, <<"perso", "Perso">>,
    <<"rh", "RH">>, <<"voyage", "Voyage">>, <<"notifications", "Notifications">>,
    <<"spam perso", "SpamPerso">>, <<"spamperso", "SpamPerso">>, <<"spam", "SpamPerso">>,
    <<"autres", "Autres">>, <<"rendez-vous", "Rendez-vous">>, <<"nextcloud", "Nextcloud">>,
    <<"sport", "Sport">>, <<"sports", "Sports">> >>

\* SAFE_LABELS.get(key, default)
SafeLabel(key, default) ==
    IF \E i \in 1..Len(SAFE_LABELS) : SAFE_LABELS[i][1] = key
    THEN SAFE_LABELS[CHOOSE i \in 1..Len(SAFE_LABELS) : SAFE_LABELS[i][1] = key][2]
    ELSE default

Normalized(n) == SafeLabel(Lower(n), n)

\* normalize_label(name)
normalize_label(name) ==
    IF name = "" THEN "Autres"
    ELSE Normalized(CollapseSpaces(Strip(name)))

\* any(tok in s for tok in ("{", "}", ":", '"'))
LooksLikeJson(s) ==
    Contains(s, "{") \/ Contains(s, "}") \/ Contains(s, ":") \/ Contains(s, "\"")

\* steps 4 to 8 of clean_label_name: s is the name with its white space
\* normalised and its quotes stripped, c is s[:200] without the slashes at
\* its ends
CheckedSlashed(s, c) ==
    IF Len(s) > 0 /\ SubSeq(s, 1, 1) = "^" THEN None
    ELSE IF LooksLikeJson(s) THEN None
    ELSE IF s = "" THEN None
    ELSE IF Lower(c) \in {"none", "null", "(vide)", "vide"} THEN None
    ELSE IF c = "" THEN None
    ELSE Some(c)

\* s.lstrip("/").rstrip("/") of s[:200]
WithoutSlashes(s) == RStrip(LStrip(Clip(s, 200), "/"), "/")

CheckedName(s) == CheckedSlashed(s, WithoutSlashes(s))

\* clean_label_name(name): <<text>> or None
clean_label_name(name) ==
    IF name = "" THEN None
    ELSE CheckedName(StripChars(Strip(CollapseSpaces(name)), " '\""))

\* len(part.split())
WordCount(part) == Len(SelectSeq(SplitOn(part, " ", ""), LAMBDA w : w # ""))

\* one iteration of the loop of parse_auto_labels: what it appends
CleanPart(part, clean) ==
    IF LooksLikeJson(part) \/ WordCount(part) > 4 \/ clean = None THEN <<>>
    ELSE <<clean[1]>>

RECURSIVE CleanParts(_)
\* the loop of parse_auto_labels over the parts
CleanParts(parts) ==
    IF Len(parts) = 0 THEN <<>>
    ELSE CleanPart(parts[1].s, clean_label_name(normalize_label(parts[1].s)))
         \o CleanParts(Tail(parts))

\* parse_auto_labels(s), s an optional text
parse_auto_labels(s) ==
    IF IsBlank(s) THEN <<>>
    ELSE Take(AddLabels(<<>>, CleanParts(SplitLabels(s[1]))), 5)

\* load_rows(db_path, only_actions, limit): limit 0 stands for no limit
load_rows(only, limit) ==
    LET all  == Ascending({i \in Ids : ~IsBlank(msg_id[i]) /\ ~IsBlank(db[i].ai_decision)})
        kept == SelectSeq(all, LAMBDA i : only = "all" \/ db[i].ai_decision[1] = only)
    IN  IF limit # 0 THEN Take(kept, limit) ELSE kept

\* the accumulators of main: the labels map (by name), the requests sent,
\* gmail ids by label id, the ids to mark and the ids to archive
Accumulators(labels_map, sent, to_add, to_mark_ids, to_archive_ids) ==
    [labels_map |-> labels_map, sent |-> sent, to_add |-> to_add,
     to_mark_ids |-> to_mark_ids, to_archive_ids |-> to_archive_ids]

\* the one element of a set of one element
Only(singleton) == CHOOSE x \in singleton : TRUE

\* ensure_label(service, name, labels_map): the label id or None, and the
\* accumulators after the call
ensure_label(name, acc) ==
    Only({IF clean = None THEN [lid |-> None, acc |-> acc]
          ELSE IF clean[1] \in acc.labels_map
               THEN [lid |-> Some(LabelId(clean[1])), acc |-> acc]
               ELSE [lid |-> Some(LabelId(clean[1])),
                     acc |-> [acc EXCEPT !.labels_map = @ \cup {clean[1]},
                                         !.sent = @ \cup {Request("labels.create", clean[1],
                                                                  <<>>, {}, {})}]] :
          clean \in {clean_label_name(name)}})

RECURSIVE AddForLabels(_, _, _)
\* for L in labs: add_for_label(L, gid)
AddForLabels(labs, gid, acc) ==
    IF Len(labs) = 0 THEN acc
    ELSE Only({AddForLabels(Tail(labs), gid, next) :
                 next \in {IF e.lid = None THEN e.acc
                           ELSE [e.acc EXCEPT !.to_add = @ \cup {<<e.lid[1], gid>>}] :
                           e \in {ensure_label(labs[1], acc)}}})

RECURSIVE Accumulate(_, _, _)
\* the loop of main over the rows
Accumulate(ids, do_archive, acc) ==
    IF Len(ids) = 0 THEN acc
    ELSE LET eid      == ids[1]
             rid      == StripChars(msg_id[eid][1], "<>")
             decision == db[eid].ai_decision[1]
             searched == [acc EXCEPT !.sent = @ \cup {Request("messages.list", rid,
                                                              <<>>, {}, {})}]
             labs     == Append(parse_auto_labels(db[eid].auto_labels),
                                "_AI_" \o Upper(decision))
         IN  Only({Accumulate(Tail(ids), do_archive, next) :
                     next \in {IF Gid(rid) \notin DOMAIN gmail.msgs THEN searched
                               ELSE [AddForLabels(labs, Gid(rid), searched) EXCEPT
                                        !.to_mark_ids = Append(@, Gid(rid)),
                                        !.to_archive_ids =
                                            IF do_archive /\ decision = "archive"
                                            THEN Append(@, Gid(rid)) ELSE @]}})

\* the gmail ids accumulated for a label id, in the order of the rows
IdsOf(lid, acc) == SelectSeq(acc.to_mark_ids, LAMBDA g : <<lid, g>> \in acc.to_add)

ModificationsArchiveAll(acc, mark_id, dry_run) ==
    IF dry_run THEN {}
    ELSE {Request("messages.batchModify", "", IdsOf(lid, acc), {lid} \cup mark_id, {}) :
             lid \in {p[1] : p \in acc.to_add}}
         \cup {Request("messages.batchModify", "", ids, {}, {"INBOX"}) :
                 ids \in {acc.to_mark_ids} \ {<<>>}}

\* the batch_modify calls of the application phase: none in a dry run, and
\* none for an empty list of ids; a table of the model fits in one chunk
Modifications(acc, mark_id, dry_run) ==
    IF dry_run THEN {}
    ELSE {Request("messages.batchModify", "", IdsOf(lid, acc), {lid} \cup mark_id, {}) :
             lid \in {p[1] : p \in acc.to_add}}
         \cup {Request("messages.batchModify", "", rest, mark_id, {}) :
                 rest \in {SelectSeq(acc.to_mark_ids,
                                     LAMBDA g : \A p \in acc.to_add : p[2] # g)} \ {<<>>}}
         \cup {Request("messages.batchModify", "", ids, {}, {"INBOX"}) :
                 ids \in {acc.to_archive_ids} \ {<<>>}}

\* the label ids of message g once the provider has served the requests
Modified(g, labels, requests) ==
    (labels \cup UNION {r.add : r \in {q \in requests : InSeq(g, q.ids)}})
    \ UNION {r.remove : r \in {q \in requests : InSeq(g, q.ids)}}

\* main(): one run of the applier
apply_gmail_labels(only, limit, no_dry_run, do_archive) ==
    /\ pc = "idle"
    /\ \E ids \in {load_rows(only, limit)} :
       \E marked \in {ensure_label("_CLASSE_PAR_SCRIPT",
                         Accumulators(gmail.labels,
                                      {Request("labels.list", "", <<>>, {}, {})},
                                      {}, <<>>, <<>>))} :
       \E acc \in {Accumulate(ids, do_archive, marked.acc)} :
       \E mods \in {Modifications(acc, {marked.lid[1]}, ~no_dry_run)} :
         /\ api' = acc.sent \cup mods
         /\ gmail' = [labels |-> acc.labels_map,
                      msgs |-> [g \in DOMAIN gmail.msgs |-> Modified(g, gmail.msgs[g], mods)]]
         /\ last' = Some([tool |-> "apply_gmail_labels", dry_run |-> ~no_dry_run,
                          do_archive |-> do_archive, ids |-> ids])
    /\ UNCHANGED <<db, pc, rows, idx, updated, warnings, optVars, submitted, call, ret, msg_id, diskVars>>

-----------------------------------------------------------------------------
(* Harness for the pure functions: Init draws the arguments, one action    *)
(* applies the function.                                                   *)

Senders == {
    None,
    Some(""),
    Some("Digest@Quora.com"),
    Some("newsletter@linkedin.com"),
    Some("no-reply@accounts.google.com"),
    Some("service@paypal.fr"),
    Some("promo@newsletter.example.com"),
    Some("alerts@bank.example.com") }

Subjects == {
    None,
    Some(""),
    Some("Security Alert: new device"),
    Some("50% OFF - flash sale"),
    Some("Unusual sign-in detected"),
    Some("Your weekly Newsletter") }

Decisions == {"keep", "archive", "delete"}

CategoryTexts == {
    None,
    Some(""),
    Some("Bancaire, Factures"),
    Some("Newsletter"),
    Some("Voyage, Promotions") }

\* senders given to make_fp: absent, empty, bare and with a display name
FpSenders == {
    None,
    Some(""),
    Some("promo@newsletter.example.com"),
    Some("Promo Team <PROMO@Newsletter.example.com>"),
    Some("alerts@bank.example.com") }

FpSubjects == {None, Some(""), Some("flash sale resume"), Some("Unusual sign-in detected")}

\* ways of writing a subject again: as it is, in capitals, with white space
\* before it, after it, with longer runs of white space, with accents on
\* its letters e, and all of these at once
Rewritings == 1..7

Rewritten(b, how) ==
    IF how = 1 THEN b
    ELSE IF how = 2 THEN Upper(b)
    ELSE IF how = 3 THEN " " \o b
    ELSE IF how = 4 THEN b \o "  "
    ELSE IF how = 5 THEN ReplaceChar(b, " ", "   ")
    ELSE IF how = 6 THEN ReplaceChar(b, "e", "e" \o CombiningMark)
    ELSE Upper("  " \o ReplaceChar(ReplaceChar(b, " ", "  "), "e", "e" \o CombiningMark) \o " ")

\* the subjects that differ from subject b only by letter case, white
\* space or accents; an absent subject has no text to rewrite
VariantsOf(b) ==
    IF b = None THEN {None, Some("")}
    ELSE {Some(Rewritten(b[1], how)) : how \in Rewritings}

\* no table is open while a function is applied alone
NoTable ==
    /\ db = <<>>
    /\ pc = "idle"
    /\ rows = <<>>
    /\ idx = 1
    /\ updated = 0
    /\ warnings = <<>>
    /\ min_conf_delete = 0
    /\ skip_duplicates = FALSE
    /\ dry = FALSE
    /\ submitted = {}
    /\ last = None
    /\ msg_id = <<>>
    /\ gmail = [labels |-> {}, msgs |-> <<>>]
    /\ api = {}
    /\ committed = db

InitOverride ==
    /\ call \in [fn : {"apply_user_overrides"}, from_addr : Senders, subject : Subjects,
                 curr_decision : Decisions, category_text : CategoryTexts]
    /\ ret = None
    /\ NoTable

CallOverride ==
    /\ call.fn = "apply_user_overrides"
    /\ ret = None
    /\ ret' = Some(apply_user_overrides(call.from_addr, call.subject,
                                        call.curr_decision, call.category_text))
    /\ UNCHANGED <<call, toolVars>>

NextOverride == CallOverride

SpecOverride == InitOverride /\ [][NextOverride]_vars

InitSalvage ==
    /\ call \in [fn : {"salvage_json"}, resp_text : Responses]
    /\ ret = None
    /\ NoTable

CallSalvage ==
    /\ call.fn = "salvage_json"
    /\ ret = None
    /\ ret' = Some(salvage_json(call.resp_text))
    /\ UNCHANGED <<call, toolVars>>

NextSalvage == CallSalvage

SpecSalvage == InitSalvage /\ [][NextSalvage]_vars

\* texts the service answers
ServiceTexts == {"", " {} ", "{\"decision\": \"keep\"}", "sorry"}

InitRetry ==
    /\ call \in [fn : {"run_ollama"}, model : {"mistral"},
                 prompt : {"", "Reponds: OK", "Subject: Unusual sign-in detected"},
                 options : {None, Some("num_ctx=2048")}, force_json : BOOLEAN]
    /\ ret = None
    /\ NoTable

NextRetry ==
    \/ EnterRunOllama
    \/ PostRequest
    \/ \E text \in ServiceTexts : RequestSucceeds(text)
    \/ RequestFails
    \/ SleepAndDouble
    \/ RaiseLast

SpecRetry == InitRetry /\ [][NextRetry]_vars

\* the interpreter goes on executing the call, and every request ends: it
\* is answered or it fails, at the latest when its timeout expires
SpecRetryFair == SpecRetry /\ WF_vars(NextRetry)

InitFp ==
    /\ \E base \in FpSubjects :
          call \in [fn : {"make_fp"}, base : {base},
                    from_addr : FpSenders, subject : VariantsOf(base),
                    other_from : FpSenders, other_subject : VariantsOf(base)]
    /\ ret = None
    /\ NoTable

CallFp ==
    /\ call.fn = "make_fp"
    /\ ret = None
    /\ ret' = Some([fp |-> make_fp(call.from_addr, call.subject),
                    other_fp |-> make_fp(call.other_from, call.other_subject)])
    /\ UNCHANGED <<call, toolVars>>

NextFp == CallFp

SpecFp == InitFp /\ [][NextFp]_vars

\* senders given to heuristic_label: absent, empty, without an address,
\* matching no, one or two domain rules
HeuristicSenders == {
    None,
    Some(""),
    Some("no address"),
    Some("alerts@bank.example.com"),
    Some("service@paypal.fr"),
    Some("Shop <shopmail@samsung.com>"),
    Some("a@news.leboncoin.fr"),
    Some("x@newsletter.volotea.com"),
    Some("gemini@google.com") }

\* subjects given to heuristic_label: absent, empty, matching no, one or
\* several subject rules
HeuristicSubjects == {
    None,
    Some(""),
    Some("Unusual sign-in detected"),
    Some("newsletters"),
    Some("Votre facture et paiement"),
    Some("Code de verification 2FA"),
    Some("promo: bons plans"),
    Some("  Vente   privee  "),
    Some("Remboursement, achat, commande, livraison, code, promo") }

InitHeuristic ==
    /\ call \in [fn : {"heuristic_label"}, from_addr : HeuristicSenders,
                 subject : HeuristicSubjects]
    /\ ret = None
    /\ NoTable

CallHeuristic ==
    /\ call.fn = "heuristic_label"
    /\ ret = None
    /\ ret' = Some(heuristic_label(call.from_addr, call.subject))
    /\ UNCHANGED <<call, toolVars>>

NextHeuristic == CallHeuristic

SpecHeuristic == InitHeuristic /\ [][NextHeuristic]_vars

-----------------------------------------------------------------------------
(* decide_cleanup.py: the rule-based action of one row.  Dates are texts;  *)
(* a day is its proleptic Gregorian ordinal (date.toordinal()).  Labels    *)
(* are written without their accents, and the accented alternative of      *)
(* SECURE_WORDS is left out.                                               *)

KEEP_LABELS == {"Bancaire", "Factures", "Sante", "Travail", "Ecole", "RH",
                "Livraison", "Garanties", "Perso"}

\* the alternatives of the SECURE_WORDS pattern, searched without case
SECURE_WORDS == {"security", "2fa", "connexion", "code", "alerte", "verif",
                 "unusual", "nouvel appareil"}

KEEP_RECENT_DAYS == 14

ArchiveAfterDays == 90

UnknownAge == 9999

\* the value of a text of digits
RECURSIVE DigitsValue(_, _)
DigitsValue(s, acc) ==
    IF Len(s) = 0 THEN acc
    ELSE DigitsValue(SubSeq(s, 2, Len(s)),
                     10 * acc + (CHOOSE d \in 0..9 : SubSeq(Digits, d + 1, d + 1) = SubSeq(s, 1, 1)))

AllDigits(s) == \A i \in 1..Len(s) : IsDigit(SubSeq(s, i, i))

IsLeap(y) == (y % 4 = 0 /\ y % 100 # 0) \/ y % 400 = 0

DaysInMonth(y, m) ==
    IF m = 2 THEN (IF IsLeap(y) THEN 29 ELSE 28)
    ELSE IF m \in {4, 6, 9, 11} THEN 30 ELSE 31

RECURSIVE DaysBeforeMonth(_, _)
DaysBeforeMonth(y, m) ==
    IF m = 1 THEN 0 ELSE DaysBeforeMonth(y, m - 1) + DaysInMonth(y, m - 1)

\* date(y, m, d).toordinal()
Ordinal(y, m, d) ==
    365 * (y - 1) + ((y - 1) \div 4) - ((y - 1) \div 100) + ((y - 1) \div 400)
    + DaysBeforeMonth(y, m) + d

\* strptime(text, "%Y-%m-%d").date() for a text of ten characters: the
\* ordinal of the day, or None when the text is not a date
DayOfText(text) ==
    IF /\ Len(text) = 10
       /\ AllDigits(SubSeq(text, 1, 4)) /\ SubSeq(text, 5, 5) = "-"
       /\ AllDigits(SubSeq(text, 6, 7)) /\ SubSeq(text, 8, 8) = "-"
       /\ AllDigits(SubSeq(text, 9, 10))
    THEN LET y == DigitsValue(SubSeq(text, 1, 4), 0)
             m == DigitsValue(SubSeq(text, 6, 7), 0)
             d == DigitsValue(SubSeq(text, 9, 10), 0)
         IN  IF y >= 1 /\ m \in 1..12 /\ d >= 1 /\ d <= DaysInMonth(y, m)
             THEN Some(Ordinal(y, m, d))
             ELSE None
    ELSE None

\* hh:mm:ss with hh < 24, mm < 60, ss < 60
IsClock(s) ==
    /\ Len(s) = 8
    /\ AllDigits(SubSeq(s, 1, 2)) /\ SubSeq(s, 3, 3) = ":"
    /\ AllDigits(SubSeq(s, 4, 5)) /\ SubSeq(s, 6, 6) = ":"
    /\ AllDigits(SubSeq(s, 7, 8))
    /\ DigitsValue(SubSeq(s, 1, 2), 0) < 24
    /\ DigitsValue(SubSeq(s, 4, 5), 0) < 60
    /\ DigitsValue(SubSeq(s, 7, 8), 0) < 60

\* +hh:mm or -hh:mm
IsOffset(s) ==
    /\ Len(s) = 6
    /\ SubSeq(s, 1, 1) \in {"+", "-"}
    /\ AllDigits(SubSeq(s, 2, 3)) /\ SubSeq(s, 4, 4) = ":"
    /\ AllDigits(SubSeq(s, 5, 6))
    /\ DigitsValue(SubSeq(s, 2, 3), 0) < 24
    /\ DigitsValue(SubSeq(s, 5, 6), 0) < 60

\* datetime.fromisoformat(text).date(): a day, then nothing, or one
\* separator character and a clock with or without an offset
FromIsoFormat(text) ==
    IF Len(text) = 10 THEN DayOfText(text)
    ELSE IF Len(text) = 19 /\ IsClock(SubSeq(text, 12, 19))
         THEN DayOfText(SubSeq(text, 1, 10))
    ELSE IF Len(text) = 25 /\ IsClock(SubSeq(text, 12, 19)) /\ IsOffset(SubSeq(text, 20, 25))
         THEN DayOfText(SubSeq(text, 1, 10))
    ELSE None

\* d.replace("Z", "+00:00")
ReplaceZulu(d) == ReplaceChar(d, "Z", "+00:00")

\* parse_date(d) of decide_cleanup: the day, or None
parse_date(d) ==
    IF d = None \/ d = Some("") THEN None
    ELSE IF FromIsoFormat(ReplaceZulu(d[1])) # None THEN FromIsoFormat(ReplaceZulu(d[1]))
    ELSE DayOfText(Clip(d[1], 10))

\* the day the module was loaded (TODAY): 2025-09-01
TODAY == Ordinal(2025, 9, 1)

\* the texts between the commas of the labels column, stripped, not empty
LabelSet(labels) ==
    LET pieces == SplitLabels(IF labels = None THEN "" ELSE labels[1])
    IN  {pieces[i].s : i \in 1..Len(pieces)}

\* SECURE_WORDS.search(text)
SecureWordsSearch(text) == \E w \in SECURE_WORDS : Contains(Lower(text), w)

\* rule 0: age <= KEEP_RECENT_DAYS
IsRecent(age) == age <= KEEP_RECENT_DAYS

\* decide(row), lines 34-73, label_main being the element that
\* next(iter(label_set)) yields: the action, the reason, the main label
decide(row, label_main) ==
    LET date       == parse_date(row.date)
        age        == IF date # None THEN TODAY - date[1] ELSE UnknownAge
        label_set  == LabelSet(row.auto_labels)
        label_norm == {Lower(x) : x \in label_set}
        text       == OrEmpty(row.subject) \o " || " \o OrEmpty(row.summary)
        result(action, reason) ==
            [action |-> action, reason |-> reason, label_main |-> label_main]
    IN  IF IsRecent(age) THEN result("keep", "recent<= 14j")
        ELSE IF row.has_attachments = 1 THEN result("keep", "has_attachments")
        ELSE IF SecureWordsSearch(text) THEN result("keep", "security_keywords")
        ELSE IF label_set \cap KEEP_LABELS # {} THEN result("keep", "keep_label")
        ELSE IF {"promotions", "newsletter"} \cap label_norm # {}
             THEN result("delete", "promo/newsletter")
        ELSE IF age >= ArchiveAfterDays THEN result("archive", "old>=90d")
        ELSE result("keep", "default")

\* the elements next(iter(label_set), "") may yield: the order of a set of
\* texts changes from one process to the next
MainLabels(labels) == IF LabelSet(labels) = {} THEN {""} ELSE LabelSet(labels)

\* date columns: absent (no Date header, or one that ingest could not
\* parse), the isoformat() texts ingest stores, a Z suffix, a bare day, a
\* day followed by other text, and texts that are no date
CleanupDates == {
    None,
    Some(""),
    Some("2025-08-31T19:43:47+00:00"),
    Some("2025-08-18T08:00:00+02:00"),
    Some("2025-08-17T23:59:59"),
    Some("2025-06-04T10:00:00Z"),
    Some("2025-06-03"),
    Some("2025-01-15 around noon"),
    Some("2024-02-29T12:00:00+00:00"),
    Some("2025-02-30T12:00:00+00:00"),
    Some("Fri, 15 Aug 2025 19:43:47 +0000") }

CleanupSubjects == {
    None,
    Some("Soldes d'ete"),
    Some("Votre CODE promo"),
    Some("Unusual sign-in detected") }

CleanupSummaries == {
    None,
    Some("weekly newsletter"),
    Some("Alerte de connexion") }

CleanupLabels == {
    None,
    Some(""),
    Some("Newsletter"),
    Some("promotions"),
    Some(" Promotions , Voyage"),
    Some("Bancaire, Newsletter"),
    Some("bancaire, newsletter"),
    Some("Perso"),
    Some("Reseaux sociaux"),
    Some("Newsletters") }

InitCleanup ==
    /\ call \in [fn : {"decide"}, date : CleanupDates, subject : CleanupSubjects,
                 has_attachments : {0, 1}, auto_labels : CleanupLabels,
                 summary : CleanupSummaries]
    /\ ret = None
    /\ NoTable

CallDecide ==
    /\ call.fn = "decide"
    /\ ret = None
    /\ \E label_main \in MainLabels(call.auto_labels) :
          ret' = Some(decide(call, label_main))
    /\ UNCHANGED <<call, toolVars>>

NextCleanup == CallDecide

SpecCleanup == InitCleanup /\ [][NextCleanup]_vars

-----------------------------------------------------------------------------
(* One decide_ai run over the first undecided message (--limit 1), the     *)
(* oracle answering any text of Responses.                                 *)

\* the message handled is row 1; the other rows are one plain message
InitResolve ==
    /\ InitTable
    /\ \A i \in Ids \ {1} :
          db[i] = NewRow(<<Some("alerts@bank.example.com"), Some("Unusual sign-in detected"), 300>>)
    /\ NoCall

StartFirstDecide ==
    /\ last = None
    /\ warnings = <<>>
    /\ \E threshold \in Thresholds : StartDecide(1, threshold)

NextResolve ==
    \/ StartFirstDecide
    \/ DecideStep({<<"ok">>, <<"fail", "fail">>}, Responses \cup {KeepAnswer})
    \/ FinishDecide

SpecResolve == InitResolve /\ [][NextResolve]_vars

-----------------------------------------------------------------------------
(* decide_ai runs over the whole table, any --limit and threshold, every   *)
(* outcome of the oracle call, a few answers.                              *)

\* answers of the oracle in the batch runs: an object, prose, a list
BatchAnswers == {
    Object2(Member("decision", <<S("delete")>>), Member("confidence", <<N(9)>>)),
    <<W("sorry")>>,
    <<P("["), S("keep"), P("]")>> }

\* the messages of the batch runs
BatchMail == {
    <<Some("alerts@bank.example.com"), Some("Unusual sign-in detected"), 300>>,
    <<Some("Digest@Quora.com"), Some("Your weekly Newsletter"), 300>> }

Init ==
    /\ InitTableOf(BatchMail)
    /\ NoCall

Next ==
    \/ \E limit \in 1..NumMsgs : \E threshold \in {5, 7} : StartDecide(limit, threshold)
    \/ DecideStep(AttemptPatterns, BatchAnswers)
    \/ FinishDecide

Spec == Init /\ [][Next]_vars

-----------------------------------------------------------------------------
(* summarize_batch and auto_label runs over a table with duplicates.       *)

\* answers of the oracle to the summary prompt: one object, cut short
SummaryAnswers == {
    <<P("{"), S("summary"), P(":"), S("weekly newsletter"), P(","),
      S("labels"), P(":"), P("["), S("Newsletter"), P(","), S("Voyage"), P("]")>> }

\* a message whose headers carry heuristic labels, long and short, and one
\* without labels
SummarizeMail == {
    <<Some("promo@newsletter.example.com"), Some("promo: bons plans"), 300>>,
    <<Some("promo@newsletter.example.com"), Some("Promo:  bons plans"), 50>>,
    <<Some("alerts@bank.example.com"), Some("Unusual sign-in detected"), 300>> }

\* --min-chars
MinChars == 200

InitSummarize ==
    /\ InitTableOf(SummarizeMail)
    /\ NoCall

NextSummarize ==
    \/ \E skip, d \in BOOLEAN : StartSummarize(NumMsgs, MinChars, skip, d)
    \/ SummarizeStep({<<"ok">>, <<"fail", "fail">>}, SummaryAnswers)
    \/ FinishSummarize
    \/ \E only_empty \in BOOLEAN : StartAutoLabel(NumMsgs, only_empty)
    \/ AutoLabelStep
    \/ FinishAutoLabel

SpecSummarize == InitSummarize /\ [][NextSummarize]_vars

-----------------------------------------------------------------------------
(* One summarize_batch run, the oracle answering objects whose labels are  *)
(* lists of one to eight texts, with and without repeats.                  *)

LabelList(texts) ==
    <<P("[")>> \o [i \in 1..(2 * Len(texts) - 1) |->
                      IF i % 2 = 1 THEN S(texts[(i + 1) \div 2]) ELSE P(",")] \o <<P("]")>>

\* label lists an oracle may give
LabelTexts == {
    <<"Voyage">>,
    <<"Voyage", "Voyage">>,
    <<"Voyage", "Finance", "Voyage">>,
    <<"Voyage", "Finance", "Factures">>,
    <<"a", "b", "c", "d", "e">>,
    <<"a", "b", "c", "d", "e", "f", "g", "h">>,
    <<"a", "b", "a", "c", "d", "e", "f">> }

LabelAnswers ==
    {Object1(Member("labels", LabelList(ls))) : ls \in LabelTexts}
    \cup {Object2(Member("summary", <<S("weekly newsletter")>>),
                  Member("labels", LabelList(ls))) : ls \in LabelTexts}

InitLabels ==
    /\ InitTableOf(SummarizeMail)
    /\ NoCall

StartFirstSummarize ==
    /\ last = None
    /\ updated = 0
    /\ \E d \in BOOLEAN : StartSummarize(NumMsgs, MinChars, FALSE, d)

NextLabels ==
    \/ StartFirstSummarize
    \/ SummarizeStep({<<"ok">>, <<"fail", "fail">>}, LabelAnswers)
    \/ FinishSummarize

SpecLabels == InitLabels /\ [][NextLabels]_vars

-----------------------------------------------------------------------------
(* apply_overrides_on_db run again and again on a table of rows already    *)
(* classified, labelled and summarized in every way.                      *)

StoredRow(m, decision, reason, labels, summ) ==
    [NewRow(m) EXCEPT !.ai_decision = decision, !.ai_reason = reason,
                      !.auto_labels = labels, !.summary = summ]

\* reason, auto_labels and summary of a stored row
StoredContexts == {
    <<None, None, None>>,
    <<Some("security alert"), Some("Newsletter, Voyage"), None>>,
    <<Some("fallback"), None, Some("weekly newsletter")>>,
    <<Some(""), Some("Voyage"), Some("promotions of the week")>> }

StoredMail == {
    <<Some("alerts@bank.example.com"), Some("Unusual sign-in detected"), 300>>,
    <<Some("promo@newsletter.example.com"), Some("50% OFF - flash sale"), 300>> }

StoredRows ==
    {StoredRow(m, Some(d), c[1], c[2], c[3]) :
        m \in StoredMail, d \in {"keep", "delete"}, c \in StoredContexts}
    \cup {StoredRow(m, d, None, None, None) : m \in StoredMail, d \in {None, Some("")}}

InitReapply ==
    /\ db \in [Ids -> StoredRows]
    /\ pc = "idle"
    /\ rows = <<>>
    /\ idx = 1
    /\ updated = 0
    /\ warnings = <<>>
    /\ min_conf_delete = 0
    /\ skip_duplicates = FALSE
    /\ dry = FALSE
    /\ submitted = {}
    /\ last = None
    /\ UntouchedMailbox
    /\ committed = db
    /\ NoCall

NextReapply == apply_overrides_on_db

SpecReapply == InitReapply /\ [][NextReapply]_vars

-----------------------------------------------------------------------------
(* apply_gmail_labels run again and again, with every combination of its   *)
(* options, on a classified table and a mailbox whose labels exist or not, *)
(* the overrides being re-applied to the table or not before the first run. *)

AppliedRows == {
    StoredRow(<<Some("alerts@bank.example.com"), Some("Unusual sign-in detected"), 300>>,
              r[1], None, r[2], None) :
        r \in {<<Some("keep"), None>>,
               <<Some("archive"), Some("Newsletter, Voyage")>>,
               <<Some("delete"), Some("Voyage, null")>>} }

\* the labels a mailbox may hold before the run
KnownLabels == {{"INBOX"}, {"INBOX", "_CLASSE_PAR_SCRIPT"}}

InitApply ==
    /\ db \in [Ids -> AppliedRows]
    /\ pc = "idle"
    /\ rows = <<>>
    /\ idx = 1
    /\ updated = 0
    /\ warnings = <<>>
    /\ min_conf_delete = 0
    /\ skip_duplicates = FALSE
    /\ dry = FALSE
    /\ submitted = {}
    /\ last = None
    /\ \E labels \in KnownLabels :
          \/ msg_id = IngestedIds /\ gmail = Mailbox(labels, {})
          \/ msg_id = IngestedIds /\ gmail = Mailbox(labels, {1})
          \/ msg_id = [IngestedIds EXCEPT ![1] = None] /\ gmail = Mailbox(labels, {})
    /\ api = {}
    /\ committed = db
    /\ NoCall

NextApply ==
    \/ \E selection \in {<<"all", 0>>, <<"archive", 1>>} :
         \E no_dry_run, do_archive \in BOOLEAN :
           apply_gmail_labels(selection[1], selection[2], no_dry_run, do_archive)
    \/ last = None /\ apply_overrides_on_db

SpecApply == InitApply /\ [][NextApply]_vars

-----------------------------------------------------------------------------
(* One decide_ai run over a table whose first message went through         *)
(* summarize_batch or not, followed by apply_overrides_on_db, run once or   *)
(* more.                                                                    *)

\* answers of the oracle: a delete of low confidence without a reason, a
\* keep with a reason, a keep that carries a summary, a keep that carries
\* categories
TerminalAnswers == {
    Object2(Member("decision", <<S("delete")>>), Member("confidence", <<N(3)>>)),
    KeepAnswer,
    Object2(Member("decision", <<S("keep")>>),
            Member("summary", <<S("weekly newsletter")>>)),
    Object2(Member("decision", <<S("keep")>>),
            Member("category", <<P("["), S("Newsletter"), P(","), S("Voyage"), P("]")>>)) }

\* summary and auto_labels of a message before decide_ai: not summarized,
\* summarized without labels, summarized with labels
SummarizedAs == {
    <<None, None>>,
    <<Some("weekly newsletter"), Some("")>>,
    <<Some("Facture du mois"), Some("Newsletter, Voyage")>> }

TerminalRows ==
    {[NewRow(m) EXCEPT !.summary = c[1], !.auto_labels = c[2]] :
        m \in StoredMail, c \in SummarizedAs}

InitTerminal ==
    /\ \E first \in TerminalRows :
         db = [i \in Ids |-> IF i = 1 THEN first
                             ELSE NewRow(<<Some("alerts@bank.example.com"),
                                           Some("Unusual sign-in detected"), 300>>)]
    /\ pc = "idle"
    /\ rows = <<>>
    /\ idx = 1
    /\ updated = 0
    /\ warnings = <<>>
    /\ min_conf_delete = 0
    /\ skip_duplicates = FALSE
    /\ dry = FALSE
    /\ submitted = {}
    /\ last = None
    /\ UntouchedMailbox
    /\ committed = db
    /\ NoCall

StartOnlyDecide ==
    /\ last = None
    /\ \E threshold \in {0, 5} : StartDecide(NumMsgs, threshold)

NextTerminal ==
    \/ StartOnlyDecide
    \/ DecideStep({<<"ok">>, <<"fail", "fail">>}, TerminalAnswers)
    \/ FinishDecide
    \/ last # None /\ apply_overrides_on_db

SpecTerminal == InitTerminal /\ [][NextTerminal]_vars

-----------------------------------------------------------------------------
(* One decide_ai run or one summarize_batch run over a table of more       *)
(* messages than a commit interval, the run ending by itself or by the     *)
(* death of its process, after which the table is what the file holds.     *)

\* messages of the table
BatchSize == 26

\* a table of messages that all differ, a table of copies of one message
BatchTables == {
    [i \in 1..BatchSize |-> NewRow(<<Some("service@paypal.fr"),
                                     Some("Invoice " \o NatStr(i)), 300>>)],
    [i \in 1..BatchSize |-> NewRow(<<Some("promo@newsletter.example.com"),
                                     Some("promo: bons plans"), 300>>)] }

InitCommit ==
    /\ db \in BatchTables
    /\ pc = "idle"
    /\ rows = <<>>
    /\ idx = 1
    /\ updated = 0
    /\ warnings = <<>>
    /\ min_conf_delete = 0
    /\ skip_duplicates = FALSE
    /\ dry = FALSE
    /\ submitted = {}
    /\ last = None
    /\ msg_id = <<>>
    /\ gmail = [labels |-> {}, msgs |-> <<>>]
    /\ api = {}
    /\ committed = db
    /\ NoCall

\* the process dies in the middle of a run: the writes made since the last
\* commit are not in the file
Interrupt ==
    /\ pc \in {"decide_ai", "summarize_batch"}
    /\ db' = committed
    /\ pc' = "interrupted"
    /\ UNCHANGED <<rows, idx, updated, warnings, optVars, submitted, last, call, ret,
                   boxVars, diskVars>>

NextCommit ==
    \/ last = None /\ StartDecide(BatchSize, 5)
    \/ DecideStep({<<"ok">>}, {KeepAnswer})
    \/ FinishDecide
    \/ last = None /\ \E skip, d \in BOOLEAN : StartSummarize(BatchSize, MinChars, skip, d)
    \/ SummarizeStep({<<"ok">>}, SummaryAnswers)
    \/ FinishSummarize
    \/ Interrupt

SpecCommit == InitCommit /\ [][NextCommit]_vars

-----------------------------------------------------------------------------
(* Properties of one decide_ai iteration (SpecResolve)                     *)

\* the value decide_ai reads the fields from: json.loads, else salvage_json
DataOf(resp) == IF json_loads(resp).ok THEN json_loads(resp).v ELSE salvage_json(resp)

\* the response reports the decision `delete`
ReportsDelete(resp) ==
    /\ DataOf(resp).t = "obj"
    /\ DictGet(DataOf(resp), "decision").t = "str"
    /\ Lower(DictGet(DataOf(resp), "decision").s) = "delete"

\* the response reports a number as its confidence
ReportsConfidence(resp) ==
    /\ DataOf(resp).t = "obj"
    /\ DictGet(DataOf(resp), "confidence").t = "num"

ReportedConfidence(resp) == DictGet(DataOf(resp), "confidence").n

\* neither the category short-circuit nor any rule of the list fires
NoOverrideApplies(row, cat) ==
    /\ ~CategoryHit(Lower(cat))
    /\ \A i \in 1..Len(USER_OVERRIDE_RULES) :
          ~RuleMatches(i, Lower(OrEmpty(row.from_addr)), Lower(OrEmpty(row.subject)))

\* decide_ai handled a message
Decided == last # None /\ last[1].tool = "decide_ai"

\* decide_ai handled a message and wrote its record
Stored == Decided /\ last[1].stored

\* decide_ai handled a message and the oracle call gave an answer
Answered == Decided /\ last[1].resp # None

\* C1: a message whose response reports delete with a confidence strictly
\* below min-conf-delete is stored as archive, its reason recording the
\* downgrade and the threshold; with a confidence at or above the threshold
\* the gate leaves the decision as it was.  Stated for the messages no
\* override applies to, for which the gate's outcome is what is stored.
C1_LowConfidenceDeleteIsArchived ==
    (/\ Stored
     /\ ReportsDelete(last[1].resp[1])
     /\ ReportsConfidence(last[1].resp[1])
     /\ NoOverrideApplies(db[last[1].id], last[1].r.cat))
    => IF ReportedConfidence(last[1].resp[1]) < min_conf_delete
       THEN /\ db[last[1].id].ai_decision = Some("archive")
            /\ Contains(db[last[1].id].ai_reason[1],
                        "downgraded: conf<" \o FloatStr(min_conf_delete))
       ELSE db[last[1].id].ai_decision = Some("delete")

\* C2: when every attempt of the oracle call failed, the message is stored
\* with the default decision (archive, 0.5, "fallback", then the overrides)
C2_TransportFailureStoresDefault ==
    (Decided /\ last[1].resp = None)
    => /\ db[last[1].id].ai_decision # None
       /\ db[last[1].id].ai_conf = Some(5)
       /\ Contains(db[last[1].id].ai_reason[1], "fallback")

\* C3: whatever text the oracle answered, the message ends with a stored
\* decision
C3_EveryAnswerIsStored ==
    Answered => /\ last[1].stored
                /\ db[last[1].id].ai_decision \in {Some(d) : d \in ValidDecisions}

\* C4: whenever the category text handed to the override engine contains
\* "newsletter" or "promotion", the stored decision is delete
C4_CategoryForcesDelete ==
    (/\ Stored
     /\ \/ Contains(Lower(last[1].r.cat), "newsletter")
        \/ Contains(Lower(last[1].r.cat), "promotion"))
    => db[last[1].id].ai_decision = Some("delete")

\* the oracle said keep, no rule of the list matches the message, the
\* category names a newsletter, and delete was stored
C4_Witness ==
    /\ Stored
    /\ Contains(Lower(last[1].r.cat), "newsletter")
    /\ last[1].r.gated = "keep"
    /\ NoOverrideApplies(db[last[1].id], "")
    /\ db[last[1].id].ai_decision = Some("delete")

\* one of the field patterns matches: decision, confidence, summary and
\* category as salvage_json has them, or a quoted reason
MatchesAFieldPattern(resp) ==
    \/ Len(TolerantFields(resp)) > 0
    \/ QuotedFieldAt(resp, "reason") # {}

\* the response is empty, or is not JSON and matches no field pattern
NothingToMatch(resp) ==
    \/ Len(resp) = 0
    \/ ~json_loads(resp).ok /\ ~MatchesAFieldPattern(resp)

\* the parser's result holds no field: None, or an empty object
NothingRecovered(v) == ~Truthy(v)

IsDefaultRecord(row) ==
    /\ row.ai_decision = Some("archive")
    /\ row.ai_conf = Some(5)
    /\ row.ai_reason = Some("fallback")

\* C9: for an empty response, or a non-JSON one matching no field pattern,
\* the parser recovers nothing and, no override applying, the record stored
\* is archive, 0.5, "fallback"
C9_TotalFailureStoresFallback ==
    (/\ Stored
     /\ NothingToMatch(last[1].resp[1])
     /\ NoOverrideApplies(db[last[1].id], ""))
    => /\ NothingRecovered(salvage_json(last[1].resp[1]))
       /\ IsDefaultRecord(db[last[1].id])

-----------------------------------------------------------------------------
(* Properties of the decide_ai runs (Spec)                                 *)

\* the positions of rows the loop has gone past
Passed == 1..(IF pc = "idle" THEN Len(rows) ELSE idx - 1)

Warned(id) == InSeq(id, warnings)

\* C8: in a decide_ai run a failure while handling one message is logged for
\* that message alone and the loop goes on: every message the loop has gone
\* past was either decided or named in a warning, never both, and when the
\* run ends the loop has gone past every message of the batch
C8_FailureIsolation ==
    (Decided /\ pc \in {"decide_ai", "idle"})
    => /\ \A k \in Passed : Warned(rows[k]) # (db[rows[k]].ai_decision # None)
       /\ \A k \in 1..Len(rows) : Warned(rows[k]) => k \in Passed
       /\ Len(warnings) + updated = Cardinality(Passed)

\* the run is over, its first message failed and a later one was decided
C8_Witness ==
    /\ Decided
    /\ pc = "idle"
    /\ Len(rows) >= 2
    /\ Warned(rows[1])
    /\ db[rows[1]].ai_decision = None
    /\ \E k \in 2..Len(rows) : db[rows[k]].ai_decision # None

\* the number of warnings that name message id
Mentions(id) == Cardinality({k \in 1..Len(warnings) : warnings[k] = id})

-----------------------------------------------------------------------------
(* Properties of the summarize_batch and auto_label runs (SpecSummarize)   *)

\* column col of row j keeps a value it holds, and changes only by taking
\* the value written to the representative id of its own group
KeptOrCopied(j, id, col) ==
    /\ db[j][col] # None => db'[j][col] = db[j][col]
    /\ db'[j][col] # db[j][col] => /\ db[j].fp = db[id].fp
                                   /\ db'[j][col] = db'[id][col]

\* C6: when summarize_batch or auto_label handles a representative, a
\* summary or auto_labels field of another message that already holds a
\* value keeps it; such a field changes only when it is unset, in a member
\* of the representative's group, and to the representative's value
C6_PropagationKeepsPopulated ==
    [][(pc \in {"summarize_batch", "auto_label"} /\ idx' = idx + 1)
       => \A j \in Ids \ {rows[idx]} :
             /\ KeptOrCopied(j, rows[idx], "summary")
             /\ KeptOrCopied(j, rows[idx], "auto_labels")
             /\ \A col \in {"ai_decision", "ai_reason", "ai_conf"} : db'[j][col] = db[j][col]]_vars

Summarized == last # None /\ last[1].tool = "summarize_batch"

\* a representative was summarized; another member of its group kept the
\* labels it held and took the summary it lacked
C6_Witness ==
    /\ Summarized
    /\ ~dry
    /\ \E b \in Ids \ {last[1].id} :
          /\ db[b].fp = db[last[1].id].fp
          /\ db[last[1].id].auto_labels = Some(last[1].labels_str)
          /\ db[b].auto_labels \notin {None, Some(""), Some(last[1].labels_str)}
          /\ last[1].summary # ""
          /\ db[b].summary = Some(last[1].summary)

\* C7 as stated: over all runs, no two messages of one fingerprint group are
\* handed to the oracle
C7_OneSubmissionPerGroup ==
    \A a, b \in submitted : db[a].fp = db[b].fp => a = b

\* C7 (amended): within one summarize_batch run with --skip-duplicates, no
\* two messages of one fingerprint group are handed to the oracle
C7_OneSubmissionPerGroupInDedupRun ==
    (pc = "summarize_batch" /\ skip_duplicates)
    => \A k, l \in 1..(idx - 1) : db[rows[k]].fp = db[rows[l]].fp => k = l

\* a run with --skip-duplicates is over; a message long enough to be
\* summarized was left out for its fingerprint and took the summary of the
\* member that was submitted
C7_Witness ==
    /\ Summarized
    /\ pc = "summarize_batch"
    /\ skip_duplicates
    /\ ~dry
    /\ idx > Len(rows)
    /\ \E b \in Ids :
          /\ ~InSeq(b, rows)
          /\ b \notin submitted
          /\ db[b].body_len >= MinChars
          /\ db[b].fp = db[last[1].id].fp
          /\ last[1].summary # ""
          /\ db[b].summary = Some(last[1].summary)

\* the message decide_ai handled last came from this sender, with this subject
Handled(frm, sub) ==
    /\ Decided
    /\ db[last[1].id].from_addr = Some(frm)
    /\ db[last[1].id].subject = Some(sub)

\* C12: for the message from promo@newsletter.example.com with subject
\* "50% OFF - flash sale", when no oracle call succeeds, the fallback
\* archive with an empty category text is overridden by the generic
\* newsletter sender rule and the decision stored is delete
C12_UnavailableOraclePromoIsDeleted ==
    (/\ Handled("promo@newsletter.example.com", "50% OFF - flash sale")
     /\ last[1].resp = None)
    => /\ ~CategoryHit("")
       /\ apply_user_overrides(Some("promo@newsletter.example.com"),
                               Some("50% OFF - flash sale"), "archive", Some("")).decision
             = "delete"
       /\ db[last[1].id].ai_decision = Some("delete")

\* the oracle answered KeepAnswer for the message from alerts@bank.example.com
KeepAnswered ==
    /\ Handled("alerts@bank.example.com", "Unusual sign-in detected")
    /\ last[1].resp = Some(KeepAnswer)

\* C13: for the message from alerts@bank.example.com with subject
\* "Unusual sign-in detected" answered with keep, 0.9, "security alert", no
\* override rule matches and the record stored is keep with confidence 0.9
C13_OracleKeepIsStoredUnchanged ==
    KeepAnswered
    => /\ last[1].r.override_reason = None
       /\ last[1].stored
       /\ db[last[1].id].ai_decision = Some("keep")
       /\ db[last[1].id].ai_conf = Some(9)

C13_Witness == KeepAnswered /\ Stored

\* a step that leaves message i, already decided, out of the rows a run
\* fetches, out of the oracle calls, and with the record it has
SetOnce(i) ==
    /\ db'[i].ai_decision = db[i].ai_decision
    /\ db'[i].ai_reason = db[i].ai_reason
    /\ db'[i].ai_conf = db[i].ai_conf
    /\ (pc = "idle" /\ pc' = "decide_ai") => ~InSeq(i, rows')
    /\ (pc = "decide_ai" /\ idx' # idx) => rows[idx] # i

\* C15: once decide_ai has stored a decision for a message, no step of
\* decide_ai selects the message again, calls the oracle for it, or changes
\* its decision, reason or confidence
C15_DecisionIsSetOnce ==
    [][\A i \in Ids : ~IsBlank(db[i].ai_decision) => SetOnce(i)]_vars

\* a later run at work on the rest of the table, a decided message left out
C15_Witness ==
    /\ pc = "decide_ai"
    /\ idx > 1
    /\ \E i \in Ids : ~IsBlank(db[i].ai_decision) /\ ~InSeq(i, rows)

\* the answer is an object whose decision is there and is not keep, archive
\* or delete: another text, or a value that is not a text
InvalidDecision(data) ==
    /\ data.t = "obj"
    /\ DictGet(data, "decision").t # "null"
    /\ \/ DictGet(data, "decision").t # "str"
       \/ Lower(DictGet(data, "decision").s) \notin ValidDecisions

\* the answer is an object whose confidence is there and is a text that
\* float() does not parse
InvalidConfidence(data) ==
    /\ data.t = "obj"
    /\ DictGet(data, "confidence").t = "str"
    /\ ParseFloatStr(DictGet(data, "confidence").s) = None

\* C20: an answer whose decision is not keep, archive or delete, text or
\* not, is read as archive, one whose confidence does not parse as a number
\* is read as 0.5, and in both cases the message is stored, with a decision
\* that is one of keep, archive, delete
C20_InvalidFieldsAreCoerced ==
    (/\ Answered
     /\ InvalidDecision(last[1].r.data) \/ InvalidConfidence(last[1].r.data))
    => /\ last[1].stored
       /\ InvalidDecision(last[1].r.data) => last[1].r.parsed = "archive"
       /\ InvalidConfidence(last[1].r.data) => db[last[1].id].ai_conf = Some(5)
       /\ db[last[1].id].ai_decision # None
       /\ db[last[1].id].ai_decision[1] \in ValidDecisions

\* C21: every confidence decide_ai stores lies in [0,1] (0..10 tenths), and
\* is the confidence the answer reports whenever that is a number of [0,1],
\* 0 included
C21_ConfidenceIsInRangeAndReported ==
    Stored
    => /\ db[last[1].id].ai_conf # None
       /\ db[last[1].id].ai_conf[1] \in 0..10
       /\ (/\ ReportsConfidence(last[1].resp[1])
           /\ ReportedConfidence(last[1].resp[1]) \in 0..10)
          => db[last[1].id].ai_conf = Some(ReportedConfidence(last[1].resp[1]))

-----------------------------------------------------------------------------
(* Properties of apply_overrides_on_db (SpecReapply)                       *)

\* what the override engine answers for a stored row in apply_overrides_on_db
EngineOn(row) ==
    apply_user_overrides(row.from_addr, row.subject, row.ai_decision[1],
                         Some(CategoryContext(row)))

\* apply_overrides_on_db has run
Reapplied == last # None /\ last[1].tool = "apply_overrides_on_db"

\* C14: a run of apply_overrides_on_db that follows another run of it
\* leaves every row as it found it and reports 0 rows changed
C14_SecondRunChangesNothing ==
    (Reapplied /\ last[1].again)
    => /\ db = last[1].before
       /\ last[1].changed = 0

\* a second run over a table in which the first run overrode a decision
C14_Witness ==
    /\ Reapplied
    /\ last[1].again
    /\ \E i \in Ids : Contains(OrEmpty(db[i].ai_reason), "rule: ")

\* the columns apply_overrides_on_db writes
WrittenColumns == {"ai_decision", "ai_reason"}

\* C30: a run of apply_overrides_on_db leaves every column other than the
\* decision and the reason of every row as it was, changes a row only when
\* it held a non-empty decision and the override engine answers another
\* decision for it, and leaves the undecided rows undecided
C30_ReapplyFrame ==
    Reapplied
    => /\ DOMAIN db = DOMAIN last[1].before
       /\ \A i \in DOMAIN db :
             /\ \A col \in DOMAIN db[i] \ WrittenColumns :
                   db[i][col] = last[1].before[i][col]
             /\ db[i] # last[1].before[i]
                  => /\ ~IsBlank(last[1].before[i].ai_decision)
                     /\ EngineOn(last[1].before[i]).decision
                            # last[1].before[i].ai_decision[1]
             /\ IsBlank(last[1].before[i].ai_decision)
                  => db[i].ai_decision = last[1].before[i].ai_decision

\* a first run changed the decision of one row next to an undecided row
C30_Witness ==
    /\ Reapplied
    /\ ~last[1].again
    /\ \E i, j \in DOMAIN db :
          /\ db[i].ai_decision # last[1].before[i].ai_decision
          /\ last[1].before[i].summary # None
          /\ db[j].ai_decision = None

-----------------------------------------------------------------------------
(* Properties of a decide_ai run followed by apply_overrides_on_db          *)
(* (SpecTerminal)                                                           *)

IsPrefix(p, s) == Len(p) <= Len(s) /\ SubSeq(s, 1, Len(p)) = p

IsSuffix(p, s) == Len(p) <= Len(s) /\ SubSeq(s, Len(s) - Len(p) + 1, Len(s)) = p

\* the reason decide_ai had accumulated for the message it just stored when
\* it called the override engine: the answer's reason, with the downgrade
\* note when the gate fired
PriorReason ==
    ConfidenceGate(FieldsOf(last[1].r.data).decision, FieldsOf(last[1].r.data).conf,
                   FieldsOf(last[1].r.data).reason, min_conf_delete).reason

\* result is the prior reason followed by the override reason o
ExtendedBy(prior, o, result) ==
    /\ IsPrefix(prior, result)
    /\ IsSuffix(o, result)
    /\ result # prior

\* the same, the spaces and separators at the two ends left aside; the
\* separator stands between the two parts when there is a prior reason
ExtendedTrimmedBy(prior, o, result) ==
    /\ IsPrefix(StripChars(prior, " |"), StripChars(result, " |"))
    /\ IsSuffix(o, result)
    /\ result # prior
    /\ StripChars(prior, " |") # "" => IsSuffix(" | " \o o, result)

\* the reason trail in decide_ai, for a way e of extending a reason
DecideTrail(e(_, _, _)) ==
    Stored
    => IF last[1].r.decision # last[1].r.gated
       THEN /\ last[1].r.override_reason # None
            /\ e(PriorReason, last[1].r.override_reason[1], db[last[1].id].ai_reason[1])
       ELSE db[last[1].id].ai_reason = Some(PriorReason)

\* the reason trail in apply_overrides_on_db, for a way e of extending a reason
ReapplyTrail(e(_, _, _)) ==
    Reapplied
    => \A i \in Ids :
          IF /\ ~IsBlank(last[1].before[i].ai_decision)
             /\ EngineOn(last[1].before[i]).decision # last[1].before[i].ai_decision[1]
          THEN /\ EngineOn(last[1].before[i]).reason # None
               /\ e(OrEmpty(last[1].before[i].ai_reason),
                    EngineOn(last[1].before[i]).reason[1], db[i].ai_reason[1])
          ELSE db[i].ai_reason = last[1].before[i].ai_reason

\* C23, as stated: in decide_ai and in apply_overrides_on_db the override
\* reason is appended to the reason exactly when the override engine
\* returned another decision than the one it was given, the reason
\* accumulated so far staying as a prefix; otherwise the reason is left as
\* it was
C23_Original == DecideTrail(ExtendedBy) /\ ReapplyTrail(ExtendedBy)

\* C23, amended: the same, the reason accumulated so far staying at the head
\* of the new reason up to the spaces and separators trimmed at its two ends
C23_ReasonTrailIsKept == DecideTrail(ExtendedTrimmedBy) /\ ReapplyTrail(ExtendedTrimmedBy)

\* apply_overrides_on_db overrode a decision whose reason was a downgrade
\* note alone
C23_Witness ==
    /\ Reapplied
    /\ \E i \in Ids :
          /\ last[1].before[i].ai_reason = Some("| downgraded: conf<0.5")
          /\ db[i].ai_decision # last[1].before[i].ai_decision
          /\ Contains(db[i].ai_reason[1], "downgraded: conf<0.5 | rule: ")

\* the messages the decide_ai run stored a record for
StoredByRun == {i \in submitted : \A k \in 1..Len(warnings) : warnings[k] # i}

\* C26: an apply_overrides_on_db run that follows the decide_ai run leaves
\* the decision and the reason of every record decide_ai stored as they were
C26_StoredRecordIsFinal ==
    Reapplied
    => \A i \in StoredByRun :
          /\ db[i].ai_decision = last[1].before[i].ai_decision
          /\ db[i].ai_reason = last[1].before[i].ai_reason

-----------------------------------------------------------------------------
(* Properties of the commits of a run (SpecCommit)                          *)

\* the messages whose record in the table is not the one the file holds
Uncommitted == {i \in DOMAIN db : db[i] # committed[i]}

\* those of them the loop of the run went through
ProcessedUncommitted == {k \in 1..(idx - 1) : db[rows[k]] # committed[rows[k]]}

\* the commit interval of the running tool
Interval == IF pc = "decide_ai" THEN DecideCommitEvery ELSE SummarizeCommitEvery

Running == pc \in {"decide_ai", "summarize_batch"}

\* a commit happens each time the count of processed messages reaches a
\* multiple of the interval, the run's end leaves nothing uncommitted, and
\* after the death of the process the table holds the records of the
\* messages processed up to the last commit
CommitPoints ==
    /\ (Running /\ ~dry /\ updated > 0 /\ updated % Interval = 0) => committed = db
    /\ pc = "idle" => committed = db
    /\ (pc = "interrupted" /\ min_conf_delete = 5)
       => Cardinality({i \in DOMAIN db : ~IsBlank(db[i].ai_decision)})
            = (updated \div DecideCommitEvery) * DecideCommitEvery
    /\ (pc = "interrupted" /\ min_conf_delete # 5 /\ ~dry /\ ~skip_duplicates)
       => \A k \in 1..Len(rows) :
             k <= (updated \div SummarizeCommitEvery) * SummarizeCommitEvery
             => ~IsBlank(db[rows[k]].summary)

\* C25, as stated: during a decide_ai run fewer than 25 messages (20 during
\* a summarize_batch run) have a record written and not committed, a commit
\* happens at each multiple of that number, the end of the run commits
\* everything, and a committed record outlives an interruption
C25_Original ==
    /\ Running => Cardinality(Uncommitted) < Interval
    /\ CommitPoints

\* C25, amended: the same, the messages counted being those the loop of the
\* run went through; the records of their duplicates, written by the
\* propagation of summarize_batch, are not counted
C25_CommitBoundsUncommittedWork ==
    /\ Running => Cardinality(ProcessedUncommitted) < Interval
    /\ CommitPoints

\* a decide_ai run died after its 25th record: the 25 records are in the
\* table, the later ones are not
C25_Witness ==
    /\ pc = "interrupted"
    /\ min_conf_delete = 5
    /\ updated > DecideCommitEvery
    /\ Cardinality({i \in DOMAIN db : ~IsBlank(db[i].ai_decision)}) = DecideCommitEvery

-----------------------------------------------------------------------------
(* Properties of apply_gmail_labels (SpecApply)                            *)

\* apply_gmail_labels has run last
Applied == last # None /\ last[1].tool = "apply_gmail_labels"

\* the requests of the provider that delete a message or move it to the trash
DeletingRequests ==
    {"messages.delete", "messages.trash", "messages.batchDelete",
     "threads.delete", "threads.trash"}

\* the decision stored for the message the provider knows as g
DecisionOf(g) ==
    {db[i].ai_decision : i \in {j \in Ids : msg_id[j] # None
                                            /\ Gid(StripChars(msg_id[j][1], "<>")) = g}}

C17_DryRunChangesNothing ==
    (Applied /\ last[1].dry_run)
    => \A r \in api : r.op \notin {"labels.create", "messages.batchModify"}

-----------------------------------------------------------------------------
(* Properties of the labels summarize_batch stores (SpecLabels)            *)

\* the label texts the answer carries: a list of strings under "labels"
RecoveredLabels(resp) ==
    LET p == ParsedOf(resp)
        l == IF p.t = "obj" THEN DictGet(p, "labels") ELSE VNull
    IN  IF l.t = "list" /\ \A i \in 1..Len(l.items) : l.items[i].t = "str"
        THEN [i \in 1..Len(l.items) |-> l.items[i].s]
        ELSE <<>>

\* the entries of a stored auto_labels text
StoredLabels(text) == [i \in 1..Len(SplitLabels(text)) |-> SplitLabels(text)[i].s]

\* position of the first occurrence of x in seq
FirstIndex(x, seq) == CHOOSE i \in 1..Len(seq) : seq[i] = x /\ \A j \in 1..(i - 1) : seq[j] # x

\* C11: the labels stored for a message whose answer carried a list of
\* labels are at most 5, hold no duplicate, all come from the answer and
\* stand in the order of their first occurrence in it
C11_LabelsCappedAndDeduplicated ==
    (/\ Summarized
     /\ ~dry
     /\ last[1].resp # None
     /\ RecoveredLabels(last[1].resp[1]) # <<>>)
    => LET got == RecoveredLabels(last[1].resp[1])
           sto == StoredLabels(db[last[1].id].auto_labels[1])
       IN  /\ Len(sto) <= 5
           /\ \A i, j \in 1..Len(sto) : sto[i] = sto[j] => i = j
           /\ \A i \in 1..Len(sto) : InSeq(sto[i], got)
           /\ \A i, j \in 1..Len(sto) :
                 i < j => FirstIndex(sto[i], got) < FirstIndex(sto[j], got)

-----------------------------------------------------------------------------
(* Properties of apply_user_overrides applied alone (SpecOverride)         *)

Returned(fn) == call # None /\ call.fn = fn /\ ret # None

CallF == Lower(OrEmpty(call.from_addr))

CallS == Lower(OrEmpty(call.subject))

\* the rules of the list that match the call's sender and subject
MatchingRules == {i \in 1..Len(USER_OVERRIDE_RULES) : RuleMatches(i, CallF, CallS)}

\* the call's category text holds neither word of the short-circuit, and no
\* rule of the list matches both its sender and its subject
NothingApplies ==
    /\ ~Contains(Lower(OrEmpty(call.category_text)), "newsletter")
    /\ ~Contains(Lower(OrEmpty(call.category_text)), "promotion")
    /\ MatchingRules = {}

\* C22: when the category text (in lower case) holds neither "newsletter"
\* nor "promotion" and no rule matches both sender and subject,
\* apply_user_overrides returns the decision it was given and no override
\* reason, an absent sender or subject included
C22_NoMatchPassesThrough ==
    (Returned("apply_user_overrides") /\ NothingApplies)
    => ret[1] = [decision |-> call.curr_decision, reason |-> None]

\* a call with an absent sender and an absent subject came back with keep
C22_Witness ==
    /\ Returned("apply_user_overrides")
    /\ NothingApplies
    /\ call.from_addr = None
    /\ call.subject = None
    /\ call.curr_decision = "keep"
    /\ ret[1].decision = "keep"

\* C5: when the category short-circuit does not fire and several rules
\* match, the decision and reason returned are those of the first matching
\* rule in list order
C5_FirstMatchingRuleWins ==
    (/\ Returned("apply_user_overrides")
     /\ ~CategoryHit(Lower(OrEmpty(call.category_text))))
    => \A i \in MatchingRules :
          (\A j \in MatchingRules : i <= j)
          => ret[1] = [decision |-> USER_OVERRIDE_RULES[i].decision,
                       reason |-> Some(USER_OVERRIDE_RULES[i].reason)]

\* two rules with different reasons match and the first one is returned
C5_Witness ==
    /\ Returned("apply_user_overrides")
    /\ ~CategoryHit(Lower(OrEmpty(call.category_text)))
    /\ \E i, j \in MatchingRules :
          /\ i < j
          /\ \A h \in MatchingRules : i <= h
          /\ USER_OVERRIDE_RULES[i].reason # USER_OVERRIDE_RULES[j].reason
          /\ ret[1].reason = Some(USER_OVERRIDE_RULES[i].reason)

-----------------------------------------------------------------------------
(* Properties of heuristic_label applied alone (SpecHeuristic)             *)

\* the domain rules that match the call's address or its domain
DomainHits ==
    {i \in 1..Len(DOMAIN_RULES) :
        \/ DomainSearch(DOMAIN_RULES[i].alts, OrEmpty(extract_email(call.from_addr)))
        \/ DomainSearch(DOMAIN_RULES[i].alts,
                        OrEmpty(domain_of(Some(OrEmpty(extract_email(call.from_addr))))))}

\* the subject rules that match the call's normalised subject
SubjectHits ==
    {i \in 1..Len(SUBJECT_RULES) :
        SubjectSearch(SUBJECT_RULES[i].alts, normalize_text(call.subject))}

LabelAt(p) == IF p[1] = 1 THEN DOMAIN_RULES[p[2]].labs[p[3]] ELSE SUBJECT_RULES[p[2]].labs[p[3]]

\* the places <<table, rule, position>> of the labels of the matching
\* rules, domain table (1) before subject table (2)
Placed(domain_hits, subject_hits) ==
    {<<1, i, j>> : i \in domain_hits, j \in 1..2} \cup {<<2, i, j>> : i \in subject_hits, j \in 1..2}

\* the places that hold a label, the rules having one label or two
Filled(places) ==
    {p \in places :
        p[3] <= Len(IF p[1] = 1 THEN DOMAIN_RULES[p[2]].labs ELSE SUBJECT_RULES[p[2]].labs)}

Earlier(p, q) ==
    \/ p[1] < q[1]
    \/ p[1] = q[1] /\ p[2] < q[2]
    \/ p[1] = q[1] /\ p[2] = q[2] /\ p[3] < q[3]

\* the places where a label is seen for the first time
FirstSeen(places) ==
    {p \in places : \A q \in places : Earlier(q, p) => LabelAt(q) # LabelAt(p)}

\* the labels of the places first, in their order, cut to the first three
FirstThree(first) ==
    [k \in 1..(IF Cardinality(first) > 3 THEN 3 ELSE Cardinality(first)) |->
        LabelAt(CHOOSE p \in first : Cardinality({q \in first : Earlier(q, p)}) = k - 1)]

ExpectedLabels == FirstThree(FirstSeen(Filled(Placed(DomainHits, SubjectHits))))

\* C24: heuristic_label returns the labels of all matching domain rules
\* followed by those of all matching subject rules, in first-seen order,
\* none repeated, cut to the first 3 and joined; the empty text when no
\* rule matches, an absent sender or subject included
C24_HeuristicLabelsAreFirstSeenUnion ==
    Returned("heuristic_label")
    => /\ ret[1] = JoinTexts(ExpectedLabels, ", ")
       /\ (DomainHits = {} /\ SubjectHits = {}) => ret[1] = ""

\* two domain rules and six subject rules matched, sharing labels: the
\* result holds the first three distinct labels
C24_Witness ==
    /\ Returned("heuristic_label")
    /\ call.from_addr = Some("gemini@google.com")
    /\ Cardinality(DomainHits) = 2
    /\ Cardinality(SubjectHits) = 6
    /\ ret[1] = "Notifications, Securite, Technique"

-----------------------------------------------------------------------------
(* Properties of salvage_json applied alone (SpecSalvage)                  *)

\* structural braces of the text: lexemes, not characters inside strings
Opened(toks) == Cardinality({i \in 1..Len(toks) : toks[i] = P("{")})

Closed(toks) == Cardinality({i \in 1..Len(toks) : toks[i] = P("}")})

\* an object that lacks closing braces
TruncatedObject(toks) ==
    /\ Len(toks) > 0
    /\ toks[1] = P("{")
    /\ Closed(toks) < Opened(toks)

\* positions of a key "decision" (any letter case) followed by ":"
DecisionKeys(toks) ==
    {i \in 1..(Len(toks) - 1) :
        toks[i].k = "str" /\ Lower(toks[i].s) = "decision" /\ toks[i + 1] = P(":")}

\* positions of a well-formed  "decision":"keep"  field
KeepFields(toks) ==
    {i \in DecisionKeys(toks) :
        toks[i].s = "decision" /\ i + 2 <= Len(toks) /\ toks[i + 2] = S("keep")}

\* nesting depth of position i: 1 for a member of the outer object
Depth(toks, i) == Opened(SubSeq(toks, 1, i)) - Closed(SubSeq(toks, 1, i))

RecoversKeep(v) == v.t = "obj" /\ DictGet(v, "decision") = VStr("keep")

\* C10 as stated: from any object lacking closing braces that contains a
\* well-formed "decision":"keep" field, the parser recovers decision = keep
C10_Original ==
    (/\ Returned("salvage_json")
     /\ TruncatedObject(call.resp_text)
     /\ KeepFields(call.resp_text) # {})
    => RecoversKeep(ret[1])

\* C10 (amended): from any object lacking closing braces whose only
\* decision field is a well-formed "decision":"keep" member of the outer
\* object, the parser recovers decision = keep
C10_TruncatedKeepIsRecovered ==
    (/\ Returned("salvage_json")
     /\ TruncatedObject(call.resp_text)
     /\ \E i \in KeepFields(call.resp_text) :
           /\ DecisionKeys(call.resp_text) = {i}
           /\ Depth(call.resp_text, i) = 1)
    => RecoversKeep(ret[1])

\* keep recovered by the field pattern from an object cut inside a string,
\* whose completed chunk does not parse
C10_Witness ==
    /\ Returned("salvage_json")
    /\ TruncatedObject(call.resp_text)
    /\ KeepFields(call.resp_text) # {}
    /\ call.resp_text[Len(call.resp_text)].k = "ustr"
    /\ ~json_loads(BalancedChunk(call.resp_text)).ok
    /\ RecoversKeep(ret[1])

\* neither the text nor its brace-completed chunk is JSON
BothParsesFail(toks) ==
    /\ Len(toks) > 0
    /\ ~json_loads(toks).ok
    /\ \/ FromFirstBrace(toks) = None
       \/ ~json_loads(BalancedChunk(FromFirstBrace(toks)[1])).ok

\* the fields of the text written as a quoted key with a well-formed value
PresentFields(toks) ==
    {f \in {"decision", "reason", "summary"} : QuotedFieldAt(toks, f) # {}}
    \cup {f \in {"confidence"} : NumFieldAt(toks, f) # {}}
    \cup {f \in {"category"} : ListFieldAt(toks, f) # {}}

\* the fields of the value the parser returned
ReturnedFields(v) ==
    IF v.t = "obj" THEN {v.items[j][1] : j \in 1..Len(v.items)}
    ELSE {}

\* C27: when the text and its brace-completed chunk both fail to parse,
\* salvage_json returns each of decision, confidence, reason, summary and
\* category that the text holds as a quoted key with a well-formed value,
\* and returns None only when the text holds none of them
C27_SalvageReturnsEveryField ==
    (/\ Returned("salvage_json")
     /\ BothParsesFail(call.resp_text))
    => /\ ReturnedFields(ret[1]) = PresentFields(call.resp_text)
       /\ ret[1] = VNull <=> PresentFields(call.resp_text) = {}

-----------------------------------------------------------------------------
(* Properties of make_fp applied alone (SpecFp)                            *)

\* the two senders of the call have the same extracted address
SameAddress == extract_email(call.from_addr) = extract_email(call.other_from)

\* C18: make_fp gives a fingerprint for every sender and subject, absent
\* ones included; two calls whose senders have the same extracted lower-cased
\* address and whose subjects differ only by letter case, white space or
\* accents return the same fingerprint, and an absent sender or subject gives
\* the fingerprint of the empty text
C18_FingerprintIsNormalized ==
    Returned("make_fp")
    => /\ SameAddress => ret[1].fp = ret[1].other_fp
       /\ call.from_addr = None => ret[1].fp = make_fp(Some(""), call.subject)
       /\ call.subject = None => ret[1].fp = make_fp(call.from_addr, Some(""))

\* two senders written differently, two subjects written differently
C18_Witness ==
    /\ Returned("make_fp")
    /\ SameAddress
    /\ call.from_addr # call.other_from
    /\ call.from_addr # None /\ call.other_from # None
    /\ call.subject = Some("flash sale resume")
    /\ call.other_subject = Some(Rewritten("flash sale resume", 7))

-----------------------------------------------------------------------------
(* Properties of one run_ollama call (SpecRetryFair)                       *)

\* a run_ollama call is under way or over
Calling == last # None /\ last[1].tool = "run_ollama"

\* the number of failed attempts so far
Failures == Cardinality({j \in 1..Len(last[1].outcomes) : last[1].outcomes[j] = "fail"})

\* what holds at every moment of a call: at most 2 requests, never two in
\* flight, a wait of 3 after the first failure and of twice the wait before
\* after the next one, an answer returned at the first success, the failure
\* raised after the second failed attempt
RetryIsBounded ==
    Calling =>
      /\ Len(last[1].outcomes) + last[1].in_flight <= 2
      /\ last[1].in_flight <= 1
      /\ Len(last[1].slept) <= Failures
      /\ pc \in {"post", "raise", "done"} => Len(last[1].slept) = Failures
      /\ \A j \in 1..Len(last[1].slept) :
            last[1].slept[j] = IF j = 1 THEN 3 ELSE 2 * last[1].slept[j - 1]
      /\ \A j \in 1..(Len(last[1].outcomes) - 1) : last[1].outcomes[j] = "fail"
      /\ ret # None =>
            /\ pc = "done"
            /\ ret[1] # None <=> last[1].outcomes[Len(last[1].outcomes)] = "ok"
            /\ ret[1] = None <=> Failures = 2
            /\ ret[1] = run_ollama(last[1].outcomes, OrEmpty(ret[1]))

\* C19: one oracle call makes at most 2 request attempts, one after the
\* other, waits 3 then 6 after the failed ones, returns at the first success,
\* raises after the second failure, and always ends
C19_RetryIsBoundedAndEnds == []RetryIsBounded /\ <>(pc = "done")

\* a call answered at its second attempt, after one wait
C19_Witness ==
    /\ Calling
    /\ pc = "done"
    /\ last[1].outcomes = <<"fail", "ok">>
    /\ last[1].slept = <<3>>
    /\ ret # None /\ ret[1] # None

-----------------------------------------------------------------------------
(* Properties of decide applied alone (SpecCleanup)                        *)

\* the date of the row is known and lies more than 14 days before TODAY
OlderThanRecent(row) ==
    /\ parse_date(row.date) # None
    /\ TODAY - parse_date(row.date)[1] > KEEP_RECENT_DAYS

\* the date of the row is known and lies at most 14 days before TODAY
KnownRecent(row) ==
    /\ parse_date(row.date) # None
    /\ TODAY - parse_date(row.date)[1] <= KEEP_RECENT_DAYS

HasSecurityKeyword(row) ==
    \/ SecureWordsSearch(OrEmpty(row.subject))
    \/ SecureWordsSearch(OrEmpty(row.summary))

CarriesKeepLabel(row) == LabelSet(row.auto_labels) \cap KEEP_LABELS # {}

CarriesPromoLabel(row) ==
    \E x \in LabelSet(row.auto_labels) : Lower(x) \in {"promotions", "newsletter"}

KeepCondition(row) ==
    \/ KnownRecent(row)
    \/ row.has_attachments = 1
    \/ HasSecurityKeyword(row)
    \/ CarriesKeepLabel(row)

\* C29: decide returns keep, archive or delete; it returns delete only for a
\* message older than 14 days, without attachment, without security keyword
\* in its subject or summary, without keep-label and with the label
\* promotions or newsletter; a message that meets a keep condition is kept
C29_CleanupIsSafe ==
    Returned("decide")
    => /\ ret[1].action \in {"keep", "archive", "delete"}
       /\ ret[1].action = "delete"
            => /\ OlderThanRecent(call)
               /\ call.has_attachments # 1
               /\ ~HasSecurityKeyword(call)
               /\ ~CarriesKeepLabel(call)
               /\ CarriesPromoLabel(call)
       /\ KeepCondition(call) => ret[1].action = "keep"


====
